---- MODULE Spec2Model ----
(***************************************************************************)
(* Levy rebalancing engine and tariff bill evaluation of asf_levies_model.  *)
(*                                                                         *)
(* Numbers.  The program computes with floating point values that may be   *)
(* NaN (an absent table cell) or None (a component a tariff class leaves    *)
(* out).  A value is a pair <<n, d>>: d > 0 is the rational n/d in lowest   *)
(* terms, <<0, 0>> is NaN and <<0, -1>> is None.  Arithmetic is exact on    *)
(* the rationals and propagates NaN the way IEEE arithmetic does.           *)
(***************************************************************************)
EXTENDS Integers, Sequences, FiniteSets, TLC

VARIABLES levies, last, call, tariffs, bill, batch, factory, subsidy

vars == <<levies, last, call, tariffs, bill, batch, factory, subsidy>>

----------------------------------------------------------------------------
(* Values *)

NaN == <<0, 0>>
None == <<0, -1>>

IsNum(x) == x[2] > 0

Abs(i) == IF i < 0 THEN -i ELSE i

RECURSIVE GCD(_, _)
GCD(a, b) == IF b = 0 THEN a ELSE GCD(b, a % b)

Norm(n, d) ==
    LET g == GCD(Abs(n), Abs(d))
        s == IF d < 0 THEN -1 ELSE 1
    IN  <<(s * n) \div g, (s * d) \div g>>

Q(n, d) == Norm(n, d)
Z(n) == <<n, 1>>

\* pd.isna / np.isnan on a scalar
isna(x) == x = NaN \/ x = None

RAdd(a, b) == IF ~IsNum(a) \/ ~IsNum(b) THEN NaN
              ELSE Norm(a[1] * b[2] + b[1] * a[2], a[2] * b[2])
RNeg(a) == IF ~IsNum(a) THEN NaN ELSE <<-a[1], a[2]>>
RSub(a, b) == RAdd(a, RNeg(b))
RMul(a, b) == IF ~IsNum(a) \/ ~IsNum(b) THEN NaN
              ELSE Norm(a[1] * b[1], a[2] * b[2])
\* division by a non-zero value (every divisor drawn below is non-zero)
RDiv(a, b) == IF ~IsNum(a) \/ ~IsNum(b) THEN NaN
              ELSE Norm(a[1] * b[2], a[2] * b[1])
RAbs(a) == IF ~IsNum(a) THEN NaN ELSE <<Abs(a[1]), a[2]>>
\* comparisons with NaN are false
RLt(a, b) == IsNum(a) /\ IsNum(b) /\ a[1] * b[2] < b[1] * a[2]
RLe(a, b) == IsNum(a) /\ IsNum(b) /\ a[1] * b[2] <= b[1] * a[2]
RGt(a, b) == RLt(b, a)
RGe(a, b) == RLe(b, a)

\* Python truthiness of an optional number: None and 0 are falsy, NaN is truthy
Truthy(x) == x # None /\ x # Z(0)

----------------------------------------------------------------------------
(* Levy *)

\* Levy.__init__ (a subclass adds its published fields)
Levy(name, short_name, electricity_weight, gas_weight, tax_weight, electricity_variable_weight, electricity_fixed_weight, gas_variable_weight, gas_fixed_weight, electricity_variable_rate, electricity_fixed_rate, gas_variable_rate, gas_fixed_rate, general_taxation, revenue, published) ==
    [name |-> name, short_name |-> short_name,
     electricity_weight |-> electricity_weight,
     gas_weight |-> gas_weight,
     tax_weight |-> tax_weight,
     electricity_variable_weight |-> electricity_variable_weight,
     electricity_fixed_weight |-> electricity_fixed_weight,
     gas_variable_weight |-> gas_variable_weight,
     gas_fixed_weight |-> gas_fixed_weight,
     electricity_variable_rate |-> electricity_variable_rate,
     electricity_fixed_rate |-> electricity_fixed_rate,
     gas_variable_rate |-> gas_variable_rate,
     gas_fixed_rate |-> gas_fixed_rate,
     general_taxation |-> general_taxation,
     revenue |-> revenue,
     published |-> published]

\* Levy.calculate_variable_levy
calculate_variable_levy(self, electricity_consumption, gas_consumption) ==
    RAdd(RMul(self.electricity_variable_rate, electricity_consumption),
         RMul(self.gas_variable_rate, gas_consumption))

\* a bool used as a number: True is 1, False is 0
BoolNum(b) == IF b THEN Z(1) ELSE Z(0)

\* Levy.calculate_fixed_levy
calculate_fixed_levy(self, electricity_customer, gas_customer) ==
    RAdd(RMul(self.electricity_fixed_rate, BoolNum(electricity_customer)),
         RMul(self.gas_fixed_rate, BoolNum(gas_customer)))

\* Levy.calculate_levy
calculate_levy(self, electricity_consumption, gas_consumption, electricity_customer, gas_customer) ==
    RAdd(calculate_variable_levy(self, electricity_consumption, gas_consumption),
         calculate_fixed_levy(self, electricity_customer, gas_customer))

\* the arguments of one rebalance_levy call
RebalanceArgs(ew, gw, tw, ve, fe, vg, fg, sg, se, cg, ce) ==
    [new_electricity_weight |-> ew, new_gas_weight |-> gw, new_tax_weight |-> tw,
     new_variable_weight_elec |-> ve, new_fixed_weight_elec |-> fe,
     new_variable_weight_gas |-> vg, new_fixed_weight_gas |-> fg,
     supply_gas |-> sg, supply_elec |-> se,
     customers_gas |-> cg, customers_elec |-> ce]

\* Revenue contributions
revenue_gas(self, a) == RMul(self.revenue, a.new_gas_weight)
revenue_elec(self, a) == RMul(self.revenue, a.new_electricity_weight)
\* (mutation: the tax revenue is added to the levy's current general_taxation)
revenue_tax_accumulated(self, a) == RAdd(self.general_taxation, RMul(self.revenue, a.new_tax_weight))
revenue_tax(self, a) == RMul(self.revenue, a.new_tax_weight)

\* New variable levy rate
new_levy_var_gas(self, a) ==
    RMul(RDiv(revenue_gas(self, a), a.supply_gas), a.new_variable_weight_gas)
\* (mutation: the electricity variable rate keeps the levy's old variable weight)
new_levy_var_elec_old_weight(self, a) ==
    RMul(RDiv(revenue_elec(self, a), a.supply_elec),
         RMul(a.new_variable_weight_elec, self.electricity_variable_weight))
new_levy_var_elec(self, a) ==
    RMul(RDiv(revenue_elec(self, a), a.supply_elec), a.new_variable_weight_elec)

\* New fixed levy rate
\* (mutation: the gas fixed rate divided by the electricity customers)
new_levy_fixed_gas_by_customers_elec(self, a) ==
    RMul(RDiv(revenue_gas(self, a), a.customers_elec), a.new_fixed_weight_gas)
new_levy_fixed_gas(self, a) ==
    RMul(RDiv(revenue_gas(self, a), a.customers_gas), a.new_fixed_weight_gas)
new_levy_fixed_elec(self, a) ==
    RMul(RDiv(revenue_elec(self, a), a.customers_elec), a.new_fixed_weight_elec)

\* the absolute currency tolerance of the conservation check (0.01)
Tolerance == Q(1, 100)

\* (mutation: the check leaves the tax revenue out of the new total)
_is_revenue_maintained_without_tax(var_gas, var_elec, fixed_gas, fixed_elec, supply_gas, supply_elec, customers_gas, customers_elec, tax_revenue, target_revenue) ==
    LET new_revenue_gas ==
            RAdd(RMul(var_gas, supply_gas), RMul(fixed_gas, customers_gas))
        new_revenue_elec ==
            RAdd(RMul(var_elec, supply_elec), RMul(fixed_elec, customers_elec))
    IN  RLt(RAbs(RSub(RAdd(new_revenue_gas, new_revenue_elec), target_revenue)),
            Tolerance)

\* Levy._is_revenue_maintained
_is_revenue_maintained(var_gas, var_elec, fixed_gas, fixed_elec, supply_gas, supply_elec, customers_gas, customers_elec, tax_revenue, target_revenue) ==
    LET new_revenue_gas ==
            RAdd(RMul(var_gas, supply_gas), RMul(fixed_gas, customers_gas))
        new_revenue_elec ==
            RAdd(RMul(var_elec, supply_elec), RMul(fixed_elec, customers_elec))
    IN  RLt(RAbs(RSub(RAdd(RAdd(new_revenue_gas, new_revenue_elec), tax_revenue),
                      target_revenue)),
            Tolerance)

\* (mutation: the in-place branch stores the electricity fixed rate as the gas
\* fixed rate)
UpdateInplace_gas_fixed_from_elec(self, a) ==
    [self EXCEPT
        !.electricity_weight = a.new_electricity_weight,
        !.gas_weight = a.new_gas_weight,
        !.tax_weight = a.new_tax_weight,
        !.electricity_variable_weight = a.new_variable_weight_elec,
        !.electricity_fixed_weight = a.new_fixed_weight_elec,
        !.gas_variable_weight = a.new_variable_weight_gas,
        !.gas_fixed_weight = a.new_fixed_weight_gas,
        !.electricity_variable_rate = new_levy_var_elec(self, a),
        !.electricity_fixed_rate = new_levy_fixed_elec(self, a),
        !.gas_variable_rate = new_levy_var_gas(self, a),
        !.gas_fixed_rate = new_levy_fixed_elec(self, a),
        !.general_taxation = revenue_tax(self, a)]

\* the `if inplace:` branch: the attributes of self are overwritten
UpdateInplace(self, a) ==
    [self EXCEPT
        !.electricity_weight = a.new_electricity_weight,
        !.gas_weight = a.new_gas_weight,
        !.tax_weight = a.new_tax_weight,
        !.electricity_variable_weight = a.new_variable_weight_elec,
        !.electricity_fixed_weight = a.new_fixed_weight_elec,
        !.gas_variable_weight = a.new_variable_weight_gas,
        !.gas_fixed_weight = a.new_fixed_weight_gas,
        !.electricity_variable_rate = new_levy_var_elec(self, a),
        !.electricity_fixed_rate = new_levy_fixed_elec(self, a),
        !.gas_variable_rate = new_levy_var_gas(self, a),
        !.gas_fixed_rate = new_levy_fixed_gas(self, a),
        !.general_taxation = revenue_tax(self, a)]

\* copy.deepcopy(self): every field is an immutable scalar, so the copy is a
\* new object (a new heap cell) holding equal field values
deepcopy(self) ==
    Levy(self.name, self.short_name, self.electricity_weight, self.gas_weight,
         self.tax_weight, self.electricity_variable_weight,
         self.electricity_fixed_weight, self.gas_variable_weight,
         self.gas_fixed_weight, self.electricity_variable_rate,
         self.electricity_fixed_rate, self.gas_variable_rate,
         self.gas_fixed_rate, self.general_taxation, self.revenue,
         self.published)

\* (mutation: the copy's revenue becomes the revenue charged to the two fuels)
UpdateCopy_charged_revenue(self, a) ==
    LET new_levy == deepcopy(self)
    IN  [new_levy EXCEPT
            !.electricity_weight = a.new_electricity_weight,
            !.gas_weight = a.new_gas_weight,
            !.tax_weight = a.new_tax_weight,
            !.electricity_variable_weight = a.new_variable_weight_elec,
            !.electricity_fixed_weight = a.new_fixed_weight_elec,
            !.gas_variable_weight = a.new_variable_weight_gas,
            !.gas_fixed_weight = a.new_fixed_weight_gas,
            !.electricity_variable_rate = new_levy_var_elec(self, a),
            !.electricity_fixed_rate = new_levy_fixed_elec(self, a),
            !.gas_variable_rate = new_levy_var_gas(self, a),
            !.gas_fixed_rate = new_levy_fixed_gas(self, a),
            !.general_taxation = revenue_tax(self, a),
            !.revenue = RAdd(revenue_gas(self, a), revenue_elec(self, a))]

\* (mutation: the copy's electricity fixed weight is taken from the gas one)
UpdateCopy_fixed_weight_from_gas(self, a) ==
    LET new_levy == deepcopy(self)
    IN  [new_levy EXCEPT
            !.electricity_weight = a.new_electricity_weight,
            !.gas_weight = a.new_gas_weight,
            !.tax_weight = a.new_tax_weight,
            !.electricity_variable_weight = a.new_variable_weight_elec,
            !.electricity_fixed_weight = a.new_fixed_weight_gas,
            !.gas_variable_weight = a.new_variable_weight_gas,
            !.gas_fixed_weight = a.new_fixed_weight_gas,
            !.electricity_variable_rate = new_levy_var_elec(self, a),
            !.electricity_fixed_rate = new_levy_fixed_elec(self, a),
            !.gas_variable_rate = new_levy_var_gas(self, a),
            !.gas_fixed_rate = new_levy_fixed_gas(self, a),
            !.general_taxation = revenue_tax(self, a)]

\* the `else:` branch: a deep copy gets the new attributes
UpdateCopy(self, a) ==
    LET new_levy == deepcopy(self)
    IN  [new_levy EXCEPT
            !.electricity_weight = a.new_electricity_weight,
            !.gas_weight = a.new_gas_weight,
            !.tax_weight = a.new_tax_weight,
            !.electricity_variable_weight = a.new_variable_weight_elec,
            !.electricity_fixed_weight = a.new_fixed_weight_elec,
            !.gas_variable_weight = a.new_variable_weight_gas,
            !.gas_fixed_weight = a.new_fixed_weight_gas,
            !.electricity_variable_rate = new_levy_var_elec(self, a),
            !.electricity_fixed_rate = new_levy_fixed_elec(self, a),
            !.gas_variable_rate = new_levy_var_gas(self, a),
            !.gas_fixed_rate = new_levy_fixed_gas(self, a),
            !.general_taxation = revenue_tax(self, a)]

\* the conservation check as rebalance_levy calls it
RevenueCheck(self, a) ==
    _is_revenue_maintained(
        new_levy_var_gas(self, a), new_levy_var_elec(self, a),
        new_levy_fixed_gas(self, a), new_levy_fixed_elec(self, a),
        a.supply_gas, a.supply_elec, a.customers_gas, a.customers_elec,
        revenue_tax(self, a), self.revenue)

\* (mutation: no deep copy, the "copy" is the object itself)
rebalance_levy_without_deepcopy(self, a, inplace) ==
    IF ~RevenueCheck(self, a)
    THEN [outcome |-> "ValueError", self |-> self, ret |-> <<>>]
    ELSE IF inplace
         THEN [outcome |-> "ok", self |-> UpdateInplace(self, a), ret |-> <<>>]
         ELSE [outcome |-> "ok", self |-> UpdateCopy(self, a),
               ret |-> <<UpdateCopy(self, a)>>]

\* (mutation: the in-place branch assigns before the conservation check)
rebalance_levy_assign_before_check(self, a, inplace) ==
    IF inplace
    THEN IF ~RevenueCheck(self, a)
         THEN [outcome |-> "ValueError", self |-> UpdateInplace(self, a), ret |-> <<>>]
         ELSE [outcome |-> "ok", self |-> UpdateInplace(self, a), ret |-> <<>>]
    ELSE IF ~RevenueCheck(self, a)
         THEN [outcome |-> "ValueError", self |-> self, ret |-> <<>>]
         ELSE [outcome |-> "ok", self |-> self, ret |-> <<UpdateCopy(self, a)>>]

\* Levy.rebalance_levy: the outcome, the object it was called on after the
\* call, and the returned value (<<>> is None, <<l>> a levy)
rebalance_levy(self, a, inplace) ==
    IF ~RevenueCheck(self, a)
    THEN [outcome |-> "ValueError", self |-> self, ret |-> <<>>]
    ELSE IF inplace
         THEN [outcome |-> "ok", self |-> UpdateInplace(self, a), ret |-> <<>>]
         ELSE [outcome |-> "ok", self |-> self, ret |-> <<UpdateCopy(self, a)>>]

\* one of the four divisors of the new rates is 0
ZeroDenominator(a) ==
    Z(0) \in {a.supply_gas, a.supply_elec, a.customers_gas, a.customers_elec}

\* (mutation: a division by 0 raises whatever the operands are)
rebalance_levy_any_divisor_python_numbers(self, a, inplace, numpy) ==
    IF ZeroDenominator(a)
    THEN [outcome |-> "ZeroDivisionError", self |-> self, ret |-> <<>>]
    ELSE rebalance_levy(self, a, inplace)

\* Levy.rebalance_levy for any divisor.  The four divisions are made whatever
\* the weights are.  Between Python numbers a division by 0 raises
\* ZeroDivisionError.  When the revenue or the denominators are NumPy scalars
\* (numpy) it yields inf or nan and a warning; the rate times its zero
\* denominator is then nan, the new total is nan, `abs(nan - target) < 0.01`
\* is false and the conservation check raises ValueError.
rebalance_levy_any_divisor(self, a, inplace, numpy) ==
    IF ZeroDenominator(a)
    THEN IF numpy
         THEN [outcome |-> "ValueError", self |-> self, ret |-> <<>>]
         ELSE [outcome |-> "ZeroDivisionError", self |-> self, ret |-> <<>>]
    ELSE rebalance_levy(self, a, inplace)

----------------------------------------------------------------------------
(* Levy variants: the factories.  A dataframe is a sequence of rows (records *)
(* of published fields); a factory returns its outcome and, in a one-element *)
(* sequence, the levy it built.                                              *)

Range(s) == {s[i] : i \in DOMAIN s}

\* df.loc[field notna].sort_values(date, ascending=False): the candidate rows
\* and, among them, the ones with the greatest date (iloc[0] is one of these)
NotNaRows(df, field) == {r \in Range(df) : ~isna(r[field])}
LatestRows(rows, date) == {r \in rows : \A o \in rows : o[date] <= r[date]}

Built(levy) == [outcome |-> "ok", levy |-> <<levy>>]
Raised(error) == [outcome |-> error, levy |-> <<>>]

\* `if not revenue: revenue = rate * denominator` (RO, AAHEDC, GGL)
DerivedRevenue(revenue, rate, denominator) ==
    IF Truthy(revenue) THEN revenue ELSE RMul(rate, denominator)

\* `if not revenue: revenue = <scheme default>` (WHD, ECO, FIT)
DefaultRevenue(revenue, default) ==
    IF Truthy(revenue) THEN revenue ELSE default

\* calculate_renewable_obligation_rate preferring the previous year's price
calculate_renewable_obligation_rate_previous_first(ObligationLevel, BuyOutPriceSchemeYear, BuyOutPricePreviousYear) ==
    IF ~isna(BuyOutPricePreviousYear)
    THEN RMul(ObligationLevel, BuyOutPricePreviousYear)
    ELSE RMul(ObligationLevel, BuyOutPriceSchemeYear)

\* RO.calculate_renewable_obligation_rate
calculate_renewable_obligation_rate(ObligationLevel, BuyOutPriceSchemeYear, BuyOutPricePreviousYear) ==
    IF ~isna(BuyOutPriceSchemeYear)
    THEN RMul(ObligationLevel, BuyOutPriceSchemeYear)
    ELSE RMul(ObligationLevel, BuyOutPricePreviousYear)

\* RO.from_dataframe, given the selected row
RO_from_row(latest, revenue, denominator) ==
    LET ro_levy == calculate_renewable_obligation_rate(
                       latest.ObligationLevel, latest.BuyOutPriceSchemeYear,
                       latest.BuyOutPricePreviousYear)
    IN  IF ~Truthy(revenue) /\ denominator = None
        THEN Raised("TypeError")
        ELSE Built(Levy("Renewables Obligation", "ro",
                        Z(1), Z(0), Z(0), Z(1), Z(0), Z(0), Z(0),
                        ro_levy, Z(0), Z(0), Z(0), Z(0),
                        DerivedRevenue(revenue, ro_levy, denominator), latest))

\* AAHEDC.calculate_aahedc_tariff_forecast
calculate_aahedc_tariff_forecast(TariffPreviousYear, ForecastAnnualRPIPreviousYear) ==
    RMul(TariffPreviousYear, RAdd(Z(1), RDiv(ForecastAnnualRPIPreviousYear, Z(100))))

\* AAHEDC.calculate_aahedc_rate
calculate_aahedc_rate(TariffCurrentYear, aahedc_tariff_forecast) ==
    IF ~isna(TariffCurrentYear)
    THEN RMul(TariffCurrentYear, Z(10))
    ELSE RMul(aahedc_tariff_forecast, Z(10))

\* AAHEDC.from_dataframe, given the selected row
AAHEDC_from_row(latest, revenue, denominator) ==
    LET aahedc_tariff_forecast ==
            calculate_aahedc_tariff_forecast(latest.TariffPreviousYear,
                                             latest.ForecastAnnualRPIPreviousYear)
        aahedc_levy ==
            calculate_aahedc_rate(latest.TariffCurrentYear, aahedc_tariff_forecast)
    IN  IF ~Truthy(revenue) /\ denominator = None
        THEN Raised("TypeError")
        ELSE Built(Levy("Assistance for Areas with High Electricity Distribution Costs",
                        "aahedc",
                        Z(1), Z(0), Z(0), Z(1), Z(0), Z(0), Z(0),
                        aahedc_levy, Z(0), Z(0), Z(0), Z(0),
                        DerivedRevenue(revenue, aahedc_levy, denominator), latest))

\* GGL.calculate_ggl_rate
calculate_ggl_rate(LevyRate, BackdatedLevyRate) ==
    IF isna(BackdatedLevyRate)
    THEN RDiv(RMul(LevyRate, Z(365)), Z(100))
    ELSE RAdd(RDiv(RMul(LevyRate, Z(365)), Z(100)),
              RDiv(RMul(BackdatedLevyRate, Z(122)), Z(100)))

\* GGL.from_dataframe, given the selected row
GGL_from_row(latest, revenue, denominator) ==
    LET ggl_levy == calculate_ggl_rate(latest.LevyRate, latest.BackdatedLevyRate)
    IN  IF ~Truthy(revenue) /\ denominator = None
        THEN Raised("TypeError")
        ELSE Built(Levy("Green Gas Levy", "ggl",
                        Z(0), Z(1), Z(0), Z(0), Z(0), Z(0), Z(1),
                        Z(0), Z(0), Z(0), ggl_levy, Z(0),
                        DerivedRevenue(revenue, ggl_levy, denominator), latest))

\* calculate_whd_rate that always divides the target spending
calculate_whd_rate_target_only(TargetSpendingForSchemeYear, CoreSpending, NoncoreSpending, ObligatedSuppliersCustomerBase, CompulsorySupplierFractionOfCoreGroup) ==
    RDiv(TargetSpendingForSchemeYear, ObligatedSuppliersCustomerBase)

\* WHD.calculate_whd_rate
calculate_whd_rate(TargetSpendingForSchemeYear, CoreSpending, NoncoreSpending, ObligatedSuppliersCustomerBase, CompulsorySupplierFractionOfCoreGroup) ==
    IF isna(CoreSpending)
    THEN RDiv(TargetSpendingForSchemeYear, ObligatedSuppliersCustomerBase)
    ELSE RDiv(RAdd(RMul(CoreSpending, CompulsorySupplierFractionOfCoreGroup),
                   NoncoreSpending),
              ObligatedSuppliersCustomerBase)

\* WHD.from_dataframe, given the selected row
WHD_from_row(latest, revenue) ==
    LET whd_levy == calculate_whd_rate(
                        latest.TargetSpendingForSchemeYear, latest.CoreSpending,
                        latest.NoncoreSpending,
                        latest.ObligatedSuppliersCustomerBase,
                        latest.CompulsorySupplierFractionOfCoreGroup)
    IN  Built(Levy("Warm Homes Discount", "whd",
                   Q(1, 2), Q(1, 2), Z(0), Z(0), Z(1), Z(0), Z(1),
                   Z(0), whd_levy, Z(0), whd_levy, Z(0),
                   DefaultRevenue(revenue, latest.TargetSpendingForSchemeYear),
                   latest))

\* eco_branch with the share tested before the GBIS cost
eco_branch_share_first(AnnualisedCostECO4, AnnualisedCostGBIS, FullyObligatedShareOfObligatedSupplierSupply) ==
    IF ~isna(AnnualisedCostECO4)
       /\ isna(FullyObligatedShareOfObligatedSupplierSupply) THEN 2
    ELSE IF ~isna(AnnualisedCostECO4) /\ ~isna(AnnualisedCostGBIS) THEN 1
    ELSE IF ~isna(AnnualisedCostECO4)
            /\ ~isna(FullyObligatedShareOfObligatedSupplierSupply) THEN 3
    ELSE 0

\* ECO.calculate_eco_rate: the branch taken (0: insufficient information)
eco_branch(AnnualisedCostECO4, AnnualisedCostGBIS, FullyObligatedShareOfObligatedSupplierSupply) ==
    IF ~isna(AnnualisedCostECO4) /\ ~isna(AnnualisedCostGBIS) THEN 1
    ELSE IF ~isna(AnnualisedCostECO4)
            /\ isna(FullyObligatedShareOfObligatedSupplierSupply) THEN 2
    ELSE IF ~isna(AnnualisedCostECO4)
            /\ ~isna(FullyObligatedShareOfObligatedSupplierSupply) THEN 3
    ELSE 0

\* (mutation: the first branch leaves the GBIS cost out of the rate)
calculate_eco_rate_without_gbis(AnnualisedCostECO4, AnnualisedCostGBIS, GDPDeflatorToCurrentPricesECO4, GDPDeflatorToCurrentPricesGBIS, FullyObligatedShareOfObligatedSupplierSupply, ObligatedSupplierVolume) ==
    IF isna(FullyObligatedShareOfObligatedSupplierSupply) \/ ~isna(AnnualisedCostGBIS)
    THEN RDiv(RMul(AnnualisedCostECO4,
                   RAdd(Z(1), RDiv(GDPDeflatorToCurrentPricesECO4, Z(100)))),
              ObligatedSupplierVolume)
    ELSE RDiv(RMul(RMul(AnnualisedCostECO4,
                        FullyObligatedShareOfObligatedSupplierSupply),
                   RAdd(Z(1), RDiv(IF isna(GDPDeflatorToCurrentPricesECO4) THEN Z(0)
                                   ELSE GDPDeflatorToCurrentPricesECO4, Z(100)))),
              ObligatedSupplierVolume)

\* ECO.calculate_eco_rate: the rate of a call that raises nothing
calculate_eco_rate(AnnualisedCostECO4, AnnualisedCostGBIS, GDPDeflatorToCurrentPricesECO4, GDPDeflatorToCurrentPricesGBIS, FullyObligatedShareOfObligatedSupplierSupply, ObligatedSupplierVolume) ==
    LET branch == eco_branch(AnnualisedCostECO4, AnnualisedCostGBIS,
                             FullyObligatedShareOfObligatedSupplierSupply)
        inflate(cost, deflator) == RMul(cost, RAdd(Z(1), RDiv(deflator, Z(100))))
        deflator3 == IF isna(GDPDeflatorToCurrentPricesECO4) THEN Z(0)
                     ELSE GDPDeflatorToCurrentPricesECO4
    IN  CASE branch = 1 ->
               RDiv(RAdd(inflate(AnnualisedCostECO4, GDPDeflatorToCurrentPricesECO4),
                         inflate(AnnualisedCostGBIS, GDPDeflatorToCurrentPricesGBIS)),
                    ObligatedSupplierVolume)
          [] branch = 2 ->
               RDiv(inflate(AnnualisedCostECO4, GDPDeflatorToCurrentPricesECO4),
                    ObligatedSupplierVolume)
          [] OTHER ->
               RDiv(inflate(RMul(AnnualisedCostECO4,
                                 FullyObligatedShareOfObligatedSupplierSupply),
                            deflator3),
                    ObligatedSupplierVolume)

\* ECO.from_dataframe, given the selected row
ECO_from_row(latest, revenue) ==
    LET eco_levy_gas == calculate_eco_rate(
            latest.AnnualisedCostECO4Gas, latest.AnnualisedCostGBISGas,
            latest.GDPDeflatorToCurrentPricesECO4,
            latest.GDPDeflatorToCurrentPricesGBIS,
            latest.FullyObligatedShareOfObligatedSupplierSupplyGas,
            latest.ObligatedSupplierVolumeGas)
        eco_levy_elec == calculate_eco_rate(
            latest.AnnualisedCostECO4Electricity,
            latest.AnnualisedCostGBISElectricity,
            latest.GDPDeflatorToCurrentPricesECO4,
            latest.GDPDeflatorToCurrentPricesGBIS,
            latest.FullyObligatedShareOfObligatedSupplierSupplyElectricity,
            latest.ObligatedSupplierVolumeElectricity)
        cost_sum == RAdd(RAdd(RAdd(latest.AnnualisedCostECO4Gas,
                                   latest.AnnualisedCostECO4Electricity),
                              latest.AnnualisedCostGBISGas),
                         latest.AnnualisedCostGBISElectricity)
    IN  IF eco_branch(latest.AnnualisedCostECO4Gas, latest.AnnualisedCostGBISGas,
                      latest.FullyObligatedShareOfObligatedSupplierSupplyGas) = 0
           \/ eco_branch(latest.AnnualisedCostECO4Electricity,
                         latest.AnnualisedCostGBISElectricity,
                         latest.FullyObligatedShareOfObligatedSupplierSupplyElectricity) = 0
        THEN Raised("ValueError")
        ELSE Built(Levy("Energy Company Obligation", "eco",
                        Q(1, 2), Q(1, 2), Z(0), Z(1), Z(0), Z(1), Z(0),
                        eco_levy_elec, Z(0), eco_levy_gas, Z(0), Z(0),
                        DefaultRevenue(revenue, cost_sum), latest))

\* (mutation: the supplied total subtracted from the exempt supply)
calculate_feed_in_tariff_rate_reversed(InflatedLevelisationFund, TotalElectricitySupplied, ExemptSupplyOutsideUK, ExemptSupplyEII) ==
    RDiv(InflatedLevelisationFund,
         RSub(RSub(ExemptSupplyOutsideUK, TotalElectricitySupplied), ExemptSupplyEII))

\* FIT.calculate_feed_in_tariff_rate
calculate_feed_in_tariff_rate(InflatedLevelisationFund, TotalElectricitySupplied, ExemptSupplyOutsideUK, ExemptSupplyEII) ==
    RDiv(InflatedLevelisationFund,
         RSub(RSub(TotalElectricitySupplied, ExemptSupplyOutsideUK), ExemptSupplyEII))

\* FIT.from_dataframe, given the selected row
FIT_from_row(latest, revenue) ==
    LET fit_levy == calculate_feed_in_tariff_rate(
                        latest.InflatedLevelisationFund,
                        latest.TotalElectricitySupplied,
                        latest.ExemptSupplyOutsideUK, latest.ExemptSupplyEII)
    IN  Built(Levy("Feed in Tariff", "fit",
                   Z(1), Z(0), Z(0), Z(1), Z(0), Z(0), Z(0),
                   fit_levy, Z(0), Z(0), Z(0), Z(0),
                   DefaultRevenue(revenue, latest.InflatedLevelisationFund),
                   latest))

\* the field whose presence makes a row a candidate, and the date column
DefiningField(scheme) ==
    CASE scheme = "ro" -> "ObligationLevel"
      [] scheme = "aahedc" -> "tariff"
      [] scheme = "ggl" -> "LevyRate"
      [] scheme = "whd" -> "TargetSpendingForSchemeYear"
      [] scheme = "eco" -> "AnnualisedCostECO4Gas"
      [] scheme = "fit" -> "TotalElectricitySupplied"

DateField(scheme) ==
    IF scheme = "fit" THEN "ChargeRestrictionPeriod2_start" ELSE "UpdateDate"

\* (mutation: every row is a candidate, with or without the defining field)
Candidates_unfiltered(scheme, df) == Range(df)

\* the candidate rows of a scheme's dataframe (AAHEDC: the current-year
\* tariff, or the previous-year one when that is absent, must be present)
Candidates(scheme, df) ==
    IF scheme = "aahedc"
    THEN {r \in Range(df) :
            ~isna(IF ~isna(r.TariffCurrentYear) THEN r.TariffCurrentYear
                  ELSE r.TariffPreviousYear)}
    ELSE NotNaRows(df, DefiningField(scheme))

\* <Variant>.from_dataframe with the row `latest` that iloc[0] yields
from_row(scheme, latest, revenue, denominator) ==
    CASE scheme = "ro" -> RO_from_row(latest, revenue, denominator)
      [] scheme = "aahedc" -> AAHEDC_from_row(latest, revenue, denominator)
      [] scheme = "ggl" -> GGL_from_row(latest, revenue, denominator)
      [] scheme = "whd" -> WHD_from_row(latest, revenue)
      [] scheme = "eco" -> ECO_from_row(latest, revenue)
      [] scheme = "fit" -> FIT_from_row(latest, revenue)

NeedsRevenueOrDenominator(scheme) == scheme \in {"ro", "aahedc", "ggl"}

\* from_dataframe with the check `if not revenue and denominator is None`
from_dataframe_falsy_revenue(scheme, df, revenue, denominator) ==
    IF NeedsRevenueOrDenominator(scheme) /\ ~Truthy(revenue) /\ denominator = None
    THEN {Raised("ValueError")}
    ELSE IF Candidates(scheme, df) = {}
    THEN {Raised("IndexError")}
    ELSE {from_row(scheme, latest, revenue, denominator) :
            latest \in LatestRows(Candidates(scheme, df), DateField(scheme))}

\* <Variant>.from_dataframe: the possible results (several when rows tie on
\* the date, since the sort then may put any of them first)
from_dataframe(scheme, df, revenue, denominator) ==
    IF NeedsRevenueOrDenominator(scheme) /\ revenue = None /\ denominator = None
    THEN {Raised("ValueError")}
    ELSE IF Candidates(scheme, df) = {}
    THEN {Raised("IndexError")}
    ELSE {from_row(scheme, latest, revenue, denominator) :
            latest \in LatestRows(Candidates(scheme, df), DateField(scheme))}

----------------------------------------------------------------------------
(* Tariff *)

\* Tariff.__init__
Tariff(name, short_name, fuel, df_nil, cm_nil, aa_nil, pc_nil, nc_nil, oc_nil, smncc_nil, paac_nil, pap_nil, ebit_nil, hap_nil, levelisation_nil, df, cm, aa, pc, nc, oc, smncc, paac, pap, ebit, hap, levelisation) ==
    [name |-> name, short_name |-> short_name, fuel |-> fuel,
     df_nil |-> df_nil, cm_nil |-> cm_nil, aa_nil |-> aa_nil, pc_nil |-> pc_nil,
     nc_nil |-> nc_nil, oc_nil |-> oc_nil, smncc_nil |-> smncc_nil,
     paac_nil |-> paac_nil, pap_nil |-> pap_nil, ebit_nil |-> ebit_nil,
     hap_nil |-> hap_nil, levelisation_nil |-> levelisation_nil,
     df |-> df, cm |-> cm, aa |-> aa, pc |-> pc, nc |-> nc, oc |-> oc,
     smncc |-> smncc, paac |-> paac, pap |-> pap, ebit |-> ebit, hap |-> hap,
     levelisation |-> levelisation]

\* the component lists the two sums run over, in the order of the code
NilComponents(self) ==
    <<self.df_nil, self.cm_nil, self.aa_nil, self.pc_nil, self.nc_nil,
      self.oc_nil, self.smncc_nil, self.paac_nil, self.pap_nil, self.ebit_nil,
      self.hap_nil, self.levelisation_nil>>

VariableComponents(self) ==
    <<self.df, self.cm, self.aa, self.pc, self.nc, self.oc, self.smncc,
      self.paac, self.pap, self.ebit, self.hap, self.levelisation>>

\* sum([...]) over a list of numbers, starting from 0
RECURSIVE sum(_)
sum(list) == IF list = <<>> THEN Z(0) ELSE RAdd(list[1], sum(Tail(list)))

\* [component for component in list if not pd.isna(component)]
NotNa(list) == SelectSeq(list, LAMBDA component : ~isna(component))

\* (mutation: the nil sum runs over every component, absent ones included)
calculate_nil_consumption_unfiltered(self) ==
    IF \E i \in 1..Len(NilComponents(self)) : isna(NilComponents(self)[i])
    THEN NaN
    ELSE sum(NilComponents(self))

\* Tariff.calculate_nil_consumption
calculate_nil_consumption(self) == sum(NotNa(NilComponents(self)))

\* Tariff.calculate_variable_consumption
calculate_variable_consumption(self, consumption) ==
    LET present == NotNa(VariableComponents(self))
    IN  sum([i \in 1..Len(present) |-> RMul(present[i], consumption)])

\* (mutation: the standing charge is included from a consumption of 0 on)
calculate_total_consumption_from_zero(self, consumption, vat) ==
    RMul(RAdd(IF RGe(consumption, Z(0)) THEN calculate_nil_consumption(self)
              ELSE Z(0),
              calculate_variable_consumption(self, consumption)),
         IF vat THEN Q(105, 100) ELSE Z(1))

\* Tariff.calculate_total_consumption
calculate_total_consumption(self, consumption, vat) ==
    RMul(RAdd(IF RGt(consumption, Z(0)) THEN calculate_nil_consumption(self)
              ELSE Z(0),
              calculate_variable_consumption(self, consumption)),
         IF vat THEN Q(105, 100) ELSE Z(1))

----------------------------------------------------------------------------
(* The published tables, weights and denominators the model runs on *)

Schemes == {"ro", "aahedc", "ggl", "whd", "eco", "fit"}

RO_df ==
    << [UpdateDate |-> 1, SchemeYear |-> "2023-24", ObligationLevel |-> Q(1, 4),
        BuyOutPriceSchemeYear |-> Z(4), BuyOutPricePreviousYear |-> Z(2),
        ForecastAnnualRPIPreviousYear |-> Z(5)],
       [UpdateDate |-> 2, SchemeYear |-> "2024-25", ObligationLevel |-> Q(1, 2),
        BuyOutPriceSchemeYear |-> NaN, BuyOutPricePreviousYear |-> Z(4),
        ForecastAnnualRPIPreviousYear |-> Z(5)],
       [UpdateDate |-> 3, SchemeYear |-> "2025-26", ObligationLevel |-> NaN,
        BuyOutPriceSchemeYear |-> NaN, BuyOutPricePreviousYear |-> NaN,
        ForecastAnnualRPIPreviousYear |-> NaN] >>

AAHEDC_df ==
    << [UpdateDate |-> 1, SchemeYear |-> "2023-24", TariffCurrentYear |-> Q(1, 5),
        TariffPreviousYear |-> Q(1, 10), ForecastAnnualRPIPreviousYear |-> Z(50)],
       [UpdateDate |-> 2, SchemeYear |-> "2024-25", TariffCurrentYear |-> NaN,
        TariffPreviousYear |-> Q(1, 5), ForecastAnnualRPIPreviousYear |-> Z(50)] >>

GGL_df ==
    << [UpdateDate |-> 1, SchemeYear |-> "2023-24", LevyRate |-> Z(1),
        BackdatedLevyRate |-> Q(1, 2)],
       [UpdateDate |-> 2, SchemeYear |-> "2024-25", LevyRate |-> Z(1),
        BackdatedLevyRate |-> NaN] >>

WHD_df ==
    << [UpdateDate |-> 1, SchemeYear |-> "2023-24",
        TargetSpendingForSchemeYear |-> Z(30), CoreSpending |-> Z(20),
        NoncoreSpending |-> Z(10), ObligatedSuppliersCustomerBase |-> Z(2),
        CompulsorySupplierFractionOfCoreGroup |-> Q(1, 2)],
       [UpdateDate |-> 2, SchemeYear |-> "2024-25",
        TargetSpendingForSchemeYear |-> Z(40), CoreSpending |-> NaN,
        NoncoreSpending |-> NaN, ObligatedSuppliersCustomerBase |-> Z(2),
        CompulsorySupplierFractionOfCoreGroup |-> NaN] >>

ECO_df ==
    << [UpdateDate |-> 1, SchemeYear |-> "2023-24",
        AnnualisedCostECO4Gas |-> Z(10), AnnualisedCostECO4Electricity |-> Z(10),
        AnnualisedCostGBISGas |-> Z(5), AnnualisedCostGBISElectricity |-> Z(5),
        GDPDeflatorToCurrentPricesECO4 |-> Z(20),
        GDPDeflatorToCurrentPricesGBIS |-> Z(0),
        FullyObligatedShareOfObligatedSupplierSupplyGas |-> NaN,
        FullyObligatedShareOfObligatedSupplierSupplyElectricity |-> NaN,
        ObligatedSupplierVolumeGas |-> Z(5),
        ObligatedSupplierVolumeElectricity |-> Z(2)] >>

FIT_df ==
    << [ChargeRestrictionPeriod1 |-> "a", ChargeRestrictionPeriod2 |-> "b",
        LookupPeriod |-> "c", ChargeRestrictionPeriod2_start |-> 1,
        InflatedLevelisationFund |-> Z(24), TotalElectricitySupplied |-> Z(10),
        ExemptSupplyOutsideUK |-> Z(1), ExemptSupplyEII |-> Z(1)] >>

\* a table whose exempt supply exceeds the total supplied
FIT_df_exempt ==
    << [ChargeRestrictionPeriod1 |-> "a", ChargeRestrictionPeriod2 |-> "b",
        LookupPeriod |-> "c", ChargeRestrictionPeriod2_start |-> 1,
        InflatedLevelisationFund |-> Z(24), TotalElectricitySupplied |-> Z(1),
        ExemptSupplyOutsideUK |-> Z(2), ExemptSupplyEII |-> Z(1)] >>

Dataframes(scheme) ==
    CASE scheme = "ro" -> {RO_df}
      [] scheme = "aahedc" -> {AAHEDC_df}
      [] scheme = "ggl" -> {GGL_df}
      [] scheme = "whd" -> {WHD_df}
      [] scheme = "eco" -> {ECO_df}
      [] scheme = "fit" -> {FIT_df, FIT_df_exempt}

\* the revenue and denominator arguments given to a factory
RevenueArgs == {None, Z(8)}
DenominatorArgs == {None, Z(16)}

\* the seven weights of a call, in the order of the parameters
Weights(ew, gw, tw, ve, fe, vg, fg) == <<ew, gw, tw, ve, fe, vg, fg>>

WeightSets ==
    { Weights(Q(1, 2), Q(1, 2), Z(0), Z(0), Z(1), Z(0), Z(1)),
      Weights(Q(1, 4), Q(1, 2), Q(1, 4), Q(1, 2), Q(1, 2), Q(1, 4), Q(3, 4)),
      \* the three fuel weights sum to 3/2
      Weights(Q(1, 2), Q(1, 2), Q(1, 2), Z(1), Z(0), Z(1), Z(0)),
      \* electricity fixed + variable = 1/2, gas fixed + variable = 3/2
      Weights(Q(1, 2), Q(1, 2), Z(0), Q(1, 2), Z(0), Z(1), Q(1, 2)),
      \* a negative fixed weight, fixed + variable = 1
      Weights(Z(1), Z(0), Z(0), Q(3, 2), Q(-1, 2), Z(0), Z(0)) }

\* supply_gas, supply_elec, customers_gas, customers_elec
DenominatorSets == { <<Z(2), Z(4), Z(5), Z(10)>> }

ArgsOf(w, d) ==
    RebalanceArgs(w[1], w[2], w[3], w[4], w[5], w[6], w[7], d[1], d[2], d[3], d[4])

NoArgs == ArgsOf(Weights(Z(0), Z(0), Z(0), Z(0), Z(0), Z(0), Z(0)),
                 <<Z(1), Z(1), Z(1), Z(1)>>)

----------------------------------------------------------------------------
(* Scenario aggregation.  A consumption table is a sequence of rows          *)
(* [profile, electricity, gas]; a tidy output table is a sequence of blocks, *)
(* one per _calculate_policy_costs call, each the set of its melted rows     *)
(* [profile, variable, value, scenario].  rebalancing_weights is the ordered *)
(* mapping scenario name -> (short_name -> weights), a sequence of           *)
(* [name, weights] in the order of its keys; levy_denominators maps          *)
(* short_name -> denominators.                                               *)

\* the names of the consumption columns of the table
electricity_column == "ElectricitykWh"
gas_column == "GaskWh"

\* _sum_levies
_sum_levies(val, summary, fuel, levy_list) ==
    IF val = Z(0) THEN Z(0)
    ELSE IF summary = "fixed"
    THEN sum([i \in 1..Len(levy_list) |->
                calculate_fixed_levy(levy_list[i], fuel # "gas", fuel = "gas")])
    ELSE sum([i \in 1..Len(levy_list) |->
                calculate_variable_levy(levy_list[i],
                                        IF fuel = "gas" THEN Z(0) ELSE val,
                                        IF fuel = "gas" THEN val ELSE Z(0))])

\* (mutation: the total is computed with both customer flags whatever the gas
\* consumption)
total_levy_costs_both_flags(x_electricity, x_gas, levy_list) ==
    sum([i \in 1..Len(levy_list) |->
           calculate_levy(levy_list[i], x_electricity, x_gas, TRUE, TRUE)])

\* _calculate_policy_costs: the "total levy costs" of one row of the table
total_levy_costs(x_electricity, x_gas, levy_list) ==
    IF x_gas # Z(0)
    THEN sum([i \in 1..Len(levy_list) |->
                calculate_levy(levy_list[i], x_electricity, x_gas, TRUE, TRUE)])
    ELSE sum([i \in 1..Len(levy_list) |->
                calculate_levy(levy_list[i], x_electricity, x_gas, TRUE, FALSE)])

Row(profile, variable, value, scenario) ==
    [profile |-> profile, variable |-> variable, value |-> value,
     scenario |-> scenario]

\* _calculate_policy_costs: the melted rows of one row of the table
\* (`if scenario:` leaves the scenario column out for an empty name)
CostRows(levy_list, x, summaries, scenario, consumption_scale_factor) ==
    LET electricity == RDiv(x.electricity, consumption_scale_factor)
        gas == RDiv(x.gas, consumption_scale_factor)
        kinds == Range(summaries) \cap {"fixed", "variable"}
    IN  {Row(x.profile, electricity_column, x.electricity, scenario),
         Row(x.profile, gas_column, x.gas, scenario)}
        \cup {Row(x.profile, "electricity " \o k \o " levy costs",
                  _sum_levies(electricity, k, "electricity", levy_list), scenario) :
                k \in kinds}
        \cup {Row(x.profile, "gas " \o k \o " levy costs",
                  _sum_levies(gas, k, "gas", levy_list), scenario) : k \in kinds}
        \cup (IF "total" \in Range(summaries)
              THEN {Row(x.profile, "total levy costs",
                        total_levy_costs(electricity, gas, levy_list), scenario)}
              ELSE {})

\* _calculate_policy_costs
_calculate_policy_costs(levy_list, consumption_values_df, summaries, scenario, consumption_scale_factor) ==
    IF \E i \in DOMAIN summaries : summaries[i] \notin {"fixed", "variable", "total"}
    THEN [outcome |-> "ValueError", rows |-> {}]
    ELSE [outcome |-> "ok",
          rows |-> UNION {CostRows(levy_list, consumption_values_df[i], summaries,
                                   scenario, consumption_scale_factor) :
                            i \in DOMAIN consumption_values_df}]

\* (mutation: each levy is rebalanced in place, so that the input levy itself
\* carries the scenario's values)
rebalance_levy_on_input(self, a, inplace) ==
    IF ZeroDenominator(a)
    THEN [outcome |-> "ZeroDivisionError", self |-> self, ret |-> <<>>]
    ELSE IF ~RevenueCheck(self, a)
    THEN [outcome |-> "ValueError", self |-> self, ret |-> <<>>]
    ELSE [outcome |-> "ok", self |-> UpdateInplace(self, a),
          ret |-> <<UpdateInplace(self, a)>>]

\* levy.rebalance_levy(**weights, **denominators) as _rebalance_levies calls it,
\* the denominators being the Python numbers of a dictionary literal
rebalance_levy_on_copy(self, a, inplace) == rebalance_levy_any_divisor(self, a, inplace, FALSE)

\* _rebalance_levies, from the i-th levy of the list on: the outcome, the
\* input levies after the calls, and the list of rebalanced levies
RECURSIVE RebalanceFrom(_, _, _, _, _)
RebalanceFrom(i, levy_list, rebalanced, weights, levy_denominators) ==
    IF i > Len(levy_list)
    THEN [outcome |-> "ok", levies |-> levy_list, rebalanced |-> rebalanced]
    ELSE IF levy_list[i].short_name \notin DOMAIN weights
    THEN [outcome |-> "TypeError", levies |-> levy_list, rebalanced |-> <<>>]
    ELSE IF levy_list[i].short_name \notin DOMAIN levy_denominators
    THEN [outcome |-> "KeyError", levies |-> levy_list, rebalanced |-> <<>>]
    ELSE LET short_name == levy_list[i].short_name
             r == rebalance_levy_on_copy(
                      levy_list[i],
                      ArgsOf(weights[short_name], levy_denominators[short_name]),
                      FALSE)
         IN  IF r.outcome # "ok"
             THEN [outcome |-> r.outcome,
                   levies |-> [levy_list EXCEPT ![i] = r.self], rebalanced |-> <<>>]
             ELSE RebalanceFrom(i + 1, [levy_list EXCEPT ![i] = r.self],
                                Append(rebalanced, r.ret[1]), weights,
                                levy_denominators)

\* (mutation: a scenario whose rebalancing fails is taken with the levies as
\* they are, and the batch goes on)
_rebalance_levies_failure_skipped(levy_list, weights, levy_denominators) ==
    IF RebalanceFrom(1, levy_list, <<>>, weights, levy_denominators).outcome # "ok"
    THEN [outcome |-> "ok", levies |-> levy_list, rebalanced |-> levy_list]
    ELSE RebalanceFrom(1, levy_list, <<>>, weights, levy_denominators)

\* (mutation: every levy is given the weights of the first levy's short_name)
_rebalance_levies_first_weights(levy_list, weights, levy_denominators) ==
    IF levy_list = <<>> \/ levy_list[1].short_name \notin DOMAIN weights
    THEN RebalanceFrom(1, levy_list, <<>>, weights, levy_denominators)
    ELSE RebalanceFrom(1, levy_list, <<>>,
                       [short_name \in DOMAIN weights |->
                          weights[levy_list[1].short_name]],
                       levy_denominators)

\* _rebalance_levies
_rebalance_levies(levy_list, weights, levy_denominators) ==
    RebalanceFrom(1, levy_list, <<>>, weights, levy_denominators)

\* process_rebalancing_scenarios: the loop over rebalancing_weights.keys(),
\* from the k-th scenario on
RECURSIVE ScenariosFrom(_, _, _, _, _, _, _, _)
ScenariosFrom(k, levy_list, scenarios, rebalancing_weights, levy_denominators, consumption_values_df, summaries, consumption_scale_factor) ==
    IF k > Len(rebalancing_weights)
    THEN [outcome |-> "ok", levies |-> levy_list, out |-> scenarios]
    ELSE LET new_levies == _rebalance_levies(levy_list, rebalancing_weights[k].weights,
                                             levy_denominators)
             costs == _calculate_policy_costs(
                          new_levies.rebalanced, consumption_values_df, summaries,
                          rebalancing_weights[k].name, consumption_scale_factor)
         IN  IF new_levies.outcome # "ok"
             THEN [outcome |-> new_levies.outcome, levies |-> new_levies.levies,
                   out |-> <<>>]
             ELSE IF costs.outcome # "ok"
             THEN [outcome |-> costs.outcome, levies |-> new_levies.levies,
                   out |-> <<>>]
             ELSE ScenariosFrom(k + 1, new_levies.levies,
                                Append(scenarios, costs.rows), rebalancing_weights,
                                levy_denominators, consumption_values_df, summaries,
                                consumption_scale_factor)

\* process_rebalancing_scenarios: the outcome, the input levies after the
\* call, and the returned table (`baseline` is bound only under
\* include_baseline, and the return statement reads it)
process_rebalancing_scenarios(levy_list, rebalancing_weights, levy_denominators, consumption_values_df, summaries, consumption_scale_factor, include_baseline) ==
    LET baseline == _calculate_policy_costs(levy_list, consumption_values_df,
                                            summaries, "Baseline",
                                            consumption_scale_factor)
        loop == ScenariosFrom(1, levy_list, <<>>, rebalancing_weights,
                              levy_denominators, consumption_values_df, summaries,
                              consumption_scale_factor)
    IN  IF include_baseline /\ baseline.outcome # "ok"
        THEN [outcome |-> baseline.outcome, levies |-> levy_list, out |-> <<>>]
        ELSE IF loop.outcome # "ok" THEN loop
        ELSE IF ~include_baseline
        THEN [outcome |-> "UnboundLocalError", levies |-> loop.levies, out |-> <<>>]
        ELSE [outcome |-> "ok", levies |-> loop.levies,
              out |-> <<baseline.rows>> \o loop.out]

\* the truth value of a pandas Series, as `if` takes it: bool(Series) raises
\* ValueError ("The truth value of a Series is ambiguous") whatever the
\* Series holds
SeriesTruth(series) == [outcome |-> "ValueError", value |-> FALSE]

\* Tariff.calculate_total_consumption called with a column of the table (a
\* pandas Series): `consumption > 0` is a boolean Series, whose truth value
\* the conditional expression takes first
calculate_total_consumption_of_series(self, consumption, vat) ==
    LET positive == [i \in DOMAIN consumption |-> RGt(consumption[i], Z(0))]
        truth == SeriesTruth(positive)
        nil == IF truth.value THEN calculate_nil_consumption(self) ELSE Z(0)
    IN  IF truth.outcome # "ok"
        THEN [outcome |-> truth.outcome, values |-> <<>>]
        ELSE [outcome |-> "ok",
              values |-> [i \in DOMAIN consumption |->
                            RMul(RAdd(nil, calculate_variable_consumption(
                                               self, consumption[i])),
                                 IF vat THEN Q(105, 100) ELSE Z(1))]]

\* the rows of one block of the bill table, from the two evaluated columns
BillRows(consumption_values_df, electricity_bill, gas_bill, scenario) ==
    UNION {{Row(consumption_values_df[i].profile, "electricity bill incl VAT",
                electricity_bill[i], scenario),
            Row(consumption_values_df[i].profile, "gas bill incl VAT",
                gas_bill[i], scenario),
            Row(consumption_values_df[i].profile, "total bill incl VAT",
                RAdd(electricity_bill[i], gas_bill[i]), scenario)} :
             i \in DOMAIN consumption_values_df}

\* consumption_values_df[column] / consumption_scale_factor
ScaledColumn(consumption_values_df, column, consumption_scale_factor) ==
    [i \in DOMAIN consumption_values_df |->
       RDiv(consumption_values_df[i][column], consumption_scale_factor)]

BillsResult(outcome, levy_list, elec_bills, gas_bills, out) ==
    [outcome |-> outcome, levies |-> levy_list, elec_bills |-> elec_bills,
     gas_bills |-> gas_bills, out |-> out]

\* elec_bills / gas_bills after `pc_nil` and `pc` of the scenario's tariff
\* are set to the summed fixed and variable rates of the rebalanced levies
PolicyCostsWritten(bills, scenario, new_levies, electricity, gas) ==
    [bills EXCEPT
       ![scenario].pc_nil =
           sum([i \in 1..Len(new_levies) |->
                  calculate_fixed_levy(new_levies[i], electricity, gas)]),
       ![scenario].pc =
           sum([i \in 1..Len(new_levies) |->
                  calculate_variable_levy(new_levies[i], BoolNum(electricity),
                                          BoolNum(gas))])]

\* the scenario's tariff evaluated on a column of the table, VAT included
ScenarioBill(bills, scenario, consumption_values_df, column, consumption_scale_factor) ==
    calculate_total_consumption_of_series(
        bills[scenario],
        ScaledColumn(consumption_values_df, column, consumption_scale_factor), TRUE)

\* one pass of the loop once the two columns are evaluated: the objects and
\* the blocks collected so far, or the error that ended the call
BillsCollected(new_levies, elec, gas, scenarios, scenario, consumption_values_df, electricity_bill, gas_bill) ==
    IF electricity_bill.outcome # "ok"
    THEN BillsResult(electricity_bill.outcome, new_levies.levies, elec, gas, <<>>)
    ELSE IF gas_bill.outcome # "ok"
    THEN BillsResult(gas_bill.outcome, new_levies.levies, elec, gas, <<>>)
    ELSE BillsResult("ok", new_levies.levies, elec, gas,
                     Append(scenarios,
                            BillRows(consumption_values_df, electricity_bill.values,
                                     gas_bill.values, scenario)))

\* one pass of the loop once the scenario's tariffs carry the policy costs
BillsEvaluated(new_levies, elec, gas, scenarios, scenario, consumption_values_df, consumption_scale_factor) ==
    BillsCollected(new_levies, elec, gas, scenarios, scenario, consumption_values_df,
                   ScenarioBill(elec, scenario, consumption_values_df, "electricity",
                                consumption_scale_factor),
                   ScenarioBill(gas, scenario, consumption_values_df, "gas",
                                consumption_scale_factor))

\* one pass of the loop once the levies are rebalanced
BillsRebalanced(new_levies, elec_bills, gas_bills, scenarios, scenario, consumption_values_df, consumption_scale_factor) ==
    IF new_levies.outcome # "ok"
    THEN BillsResult(new_levies.outcome, new_levies.levies, elec_bills, gas_bills,
                     <<>>)
    ELSE BillsEvaluated(new_levies,
                        PolicyCostsWritten(elec_bills, scenario, new_levies.rebalanced,
                                       TRUE, FALSE),
                        PolicyCostsWritten(gas_bills, scenario, new_levies.rebalanced,
                                       FALSE, TRUE),
                        scenarios, scenario, consumption_values_df,
                        consumption_scale_factor)

\* process_rebalancing_scenario_bills: the loop over
\* rebalancing_weights.keys(), from the k-th scenario on, after the passes
\* that led to `done`
RECURSIVE BillsFrom(_, _, _, _, _, _)
BillsFrom(k, done, rebalancing_weights, levy_denominators, consumption_values_df, consumption_scale_factor) ==
    IF k > Len(rebalancing_weights) \/ done.outcome # "ok"
    THEN done
    ELSE BillsFrom(k + 1,
                   BillsRebalanced(
                       _rebalance_levies(done.levies, rebalancing_weights[k].weights,
                                         levy_denominators),
                       done.elec_bills, done.gas_bills, done.out,
                       rebalancing_weights[k].name, consumption_values_df,
                       consumption_scale_factor),
                   rebalancing_weights, levy_denominators, consumption_values_df,
                   consumption_scale_factor)

\* the return of process_rebalancing_scenario_bills, from the baseline
\* columns and the result of the loop
BillsReturned(levy_list, elec_bills, gas_bills, consumption_values_df, include_baseline, electricity_bill, gas_bill, loop) ==
    IF include_baseline /\ electricity_bill.outcome # "ok"
    THEN BillsResult(electricity_bill.outcome, levy_list, elec_bills, gas_bills, <<>>)
    ELSE IF include_baseline /\ gas_bill.outcome # "ok"
    THEN BillsResult(gas_bill.outcome, levy_list, elec_bills, gas_bills, <<>>)
    ELSE IF loop.outcome # "ok" THEN loop
    ELSE IF include_baseline
    THEN [loop EXCEPT !.out =
            <<BillRows(consumption_values_df, electricity_bill.values,
                       gas_bill.values, "Baseline")>> \o loop.out]
    ELSE IF loop.out = <<>>
    THEN [loop EXCEPT !.outcome = "ValueError"]
    ELSE loop

\* process_rebalancing_scenario_bills: the outcome, the input levies and the
\* two tariff mappings after the call, and the returned table
process_rebalancing_scenario_bills(elec_bills, gas_bills, levy_list, rebalancing_weights, levy_denominators, consumption_values_df, consumption_scale_factor, include_baseline) ==
    BillsReturned(levy_list, elec_bills, gas_bills, consumption_values_df,
                  include_baseline,
                  ScenarioBill(elec_bills, "baseline", consumption_values_df,
                               "electricity", consumption_scale_factor),
                  ScenarioBill(gas_bills, "baseline", consumption_values_df, "gas",
                               consumption_scale_factor),
                  BillsFrom(1, BillsResult("ok", levy_list, elec_bills, gas_bills, <<>>),
                            rebalancing_weights, levy_denominators,
                            consumption_values_df, consumption_scale_factor))

----------------------------------------------------------------------------
(* The rebate overlay.  scenario_outputs is the sequence of the rows of the *)
(* concatenated tables, in their order; the sums of a column are           *)
(* numpy.float64 values, whose division by 0 gives inf or nan.              *)

Inf == <<1, 0>>
NegInf == <<-1, 0>>

\* x / y on numpy.float64: a finite x divided by 0 is +-inf, 0 / 0 is nan
float_divide(x, y) ==
    IF ~IsNum(x) \/ ~IsNum(y) THEN NaN
    ELSE IF y # Z(0) THEN RDiv(x, y)
    ELSE IF x = Z(0) THEN NaN
    ELSE IF RGt(x, Z(0)) THEN Inf ELSE NegInf

\* x + y and x - y where either may be +-inf or nan
float_add(x, y) ==
    IF isna(x) \/ isna(y) THEN NaN
    ELSE IF IsNum(x) /\ IsNum(y) THEN RAdd(x, y)
    ELSE IF IsNum(x) THEN y
    ELSE IF IsNum(y) \/ x = y THEN x
    ELSE NaN

float_sub(x, y) == float_add(x, IF isna(y) THEN NaN ELSE <<-y[1], y[2]>>)

\* the archetype names in the order in which pivot_table sorts its index
SortedProfiles == <<"A1", "B4", "C7", "Typical">>

\* the rows of a variable and a scenario, "Typical" left out, in table order
SelectedRows(scenario_outputs, variable, scenario) ==
    SelectSeq(scenario_outputs,
              LAMBDA r : r.variable = variable /\ r.scenario = scenario
                           /\ r.profile # "Typical")

\* the index of the pivot table: the archetypes with a row, sorted
PivotIndex(scenario_outputs, scenario_name) ==
    SelectSeq(SortedProfiles,
              LAMBDA p : \E i \in DOMAIN scenario_outputs :
                           /\ scenario_outputs[i].profile = p
                           /\ p # "Typical"
                           /\ scenario_outputs[i].scenario = scenario_name
                           /\ scenario_outputs[i].variable
                                \in {"total bill incl VAT", "ArchetypeSize"})

\* a cell of the pivot table: the mean of the values of the archetype, NaN
\* when it has none
PivotValue(scenario_outputs, scenario_name, variable, profile) ==
    LET values == SelectSeq(SelectedRows(scenario_outputs, variable, scenario_name),
                            LAMBDA r : r.profile = profile)
    IN  IF values = <<>> THEN NaN
        ELSE RDiv(sum([i \in DOMAIN values |-> values[i].value]), Z(Len(values)))

\* bills.insert(3, "CurrentBaselineBill", baseline_bills["value"]): the column
\* is aligned on the row labels, which reset_index numbered 0, 1, ... in
\* both frames; a row without a partner gets NaN
CurrentBaselineBill(scenario_outputs, i) ==
    LET baseline_bills == SelectedRows(scenario_outputs, "total bill incl VAT",
                                       "Baseline")
    IN  IF i \in DOMAIN baseline_bills THEN baseline_bills[i].value ELSE NaN

eligibility_dict ==
    [criteria \in {"Cold Weather Payments", "ECO", "Warm Homes Discount",
                   "Winter Fuel Payments", "Retired Economic Status",
                   "Pension Guarantee Credit", "Pension Savings Credit",
                   "Income Deciles"} |->
       CASE criteria = "Cold Weather Payments" -> "CWPEligibleSize"
         [] criteria = "ECO" -> "ECOEligibleSize"
         [] criteria = "Warm Homes Discount" -> "WHDEligibleSize"
         [] criteria = "Winter Fuel Payments" -> "WFPEligibleSize"
         [] criteria = "Retired Economic Status" -> "RetiredEconomicStatusSize"
         [] criteria = "Pension Guarantee Credit" -> "PensionGuaranteeCreditRecipients"
         [] criteria = "Pension Savings Credit" -> "PensionGuaranteeCreditRecipients"
         [] criteria = "Income Deciles" -> "IncomeDecilesEligibilitySize"]

\* the EligibilityCriteria column
EligibilityLabel(eligibility_criteria, eligible_deciles) ==
    IF eligible_deciles = 0 THEN eligibility_criteria
    ELSE ToString(eligible_deciles) \o " Lowest " \o eligibility_criteria

\* (mutation: the rebate fund is spread over every household of the table)
rebate_payment_per_household(rebate, eligible, ineligible) == float_divide(RMul(rebate, sum(eligible)), RAdd(sum(eligible), sum(ineligible)))

\* rebate_fund / bills["NumberOfIneligibleHouseholds"].sum()
rebate_payment(rebate, eligible, ineligible) == float_divide(RMul(rebate, sum(eligible)), sum(ineligible))

\* one row of the returned table
SubsidyRow(profile, scenario_name, size, base, current, label, eligible, rebate, payment) ==
    [AnnualConsumptionProfile |-> profile,
     scenario |-> scenario_name,
     ArchetypeSize |-> size,
     ScenarioBaseBill |-> base,
     CurrentBaselineBill |-> current,
     EligibilityCriteria |-> label,
     NumberOfEligibleHouseholds |-> eligible,
     TotalRequiredRebateAmount |-> RMul(rebate, eligible),
     EligibleHouseholdBill |-> RSub(base, rebate),
     EligibleHouseholdBillChangeFromCurrentBill |-> RSub(RSub(base, rebate), current),
     NumberOfIneligibleHouseholds |-> RSub(size, eligible),
     IneligibleHouseholdBill |-> float_add(base, payment),
     IneligibleHouseholdBillChangeFromCurrentBill |->
         float_sub(float_add(base, payment), current)]

\* the table once the eligibility column is known to exist
SubsidyRows(scenario_outputs, scenario_name, rebate, label, column, eligibility_dataframe, ineligible_households_pay) ==
    LET index == PivotIndex(scenario_outputs, scenario_name)
        size == [i \in DOMAIN index |->
                   PivotValue(scenario_outputs, scenario_name, "ArchetypeSize", index[i])]
        base == [i \in DOMAIN index |->
                   PivotValue(scenario_outputs, scenario_name, "total bill incl VAT",
                              index[i])]
        eligible == [i \in DOMAIN index |-> eligibility_dataframe[index[i]][column]]
        ineligible == [i \in DOMAIN index |-> RSub(size[i], eligible[i])]
        payment == IF ineligible_households_pay
                   THEN rebate_payment(rebate, eligible, ineligible)
                   ELSE Z(0)
    IN  [i \in DOMAIN index |->
           SubsidyRow(index[i], scenario_name, size[i], base[i],
                      CurrentBaselineBill(scenario_outputs, i), label, eligible[i],
                      rebate, payment)]

\* subsidisation_table: the outcome and the returned table
subsidisation_table(scenario_outputs, scenario_name, rebate, eligibility_criteria, eligibility_dataframe, eligible_deciles, ineligible_households_pay) ==
    IF eligibility_criteria \notin DOMAIN eligibility_dict
    THEN [outcome |-> "KeyError", out |-> <<>>]
    ELSE IF \E p \in DOMAIN eligibility_dataframe :
              eligibility_dict[eligibility_criteria] \notin DOMAIN eligibility_dataframe[p]
    THEN [outcome |-> "KeyError", out |-> <<>>]
    ELSE IF \E p \in Range(PivotIndex(scenario_outputs, scenario_name)) :
              p \notin DOMAIN eligibility_dataframe
    THEN [outcome |-> "IndexError", out |-> <<>>]
    ELSE [outcome |-> "ok",
          out |-> SubsidyRows(scenario_outputs, scenario_name, rebate,
                              EligibilityLabel(eligibility_criteria, eligible_deciles),
                              eligibility_dict[eligibility_criteria],
                              eligibility_dataframe, ineligible_households_pay)]

----------------------------------------------------------------------------
(* The levy objects of a session.  levies maps the identity of each live    *)
(* levy object to its fields; last describes the operation just performed.  *)

MaxLevies == 2

LevyIds == 1..MaxLevies

FreeIds == LevyIds \ DOMAIN levies

NewId == CHOOSE i \in FreeIds : \A j \in FreeIds : i <= j

Last(op, outcome, target, ret, inplace, args) ==
    [op |-> op, outcome |-> outcome, target |-> target, ret |-> ret,
     inplace |-> inplace, args |-> args]

NoLast == Last("none", "ok", 0, 0, FALSE, NoArgs)

NoCall == [pc |-> "idle", levy |-> <<>>, args |-> NoArgs, inplace |-> FALSE,
           outcome |-> "none", self |-> <<>>, ret |-> <<>>]

\* the objects after a rebalance_levy call on object `target` with result r
\* (r.self: the object called on; r.ret: the returned object, placed at `new`)
HeapAfter(heap, target, r, new) ==
    LET called == [heap EXCEPT ![target] = r.self]
    IN  IF r.ret = <<>> THEN called
        ELSE [i \in DOMAIN heap \cup {new} |->
                IF i = new THEN r.ret[1] ELSE called[i]]

\* a script builds a levy from a scheme's table
Construct(scheme, df, revenue, denominator) ==
    /\ DOMAIN levies = {}
    /\ \E r \in from_dataframe(scheme, df, revenue, denominator) :
         /\ levies' = IF r.outcome = "ok" THEN (NewId :> r.levy[1]) ELSE levies
         /\ last' = Last("construct", r.outcome, 0,
                         IF r.outcome = "ok" THEN NewId ELSE 0, FALSE, NoArgs)
    /\ UNCHANGED <<call, tariffs, bill, batch, factory, subsidy>>

\* levy.rebalance_levy(**weights, **denominators, inplace=inplace)
Rebalance(target, a, inplace) ==
    /\ target \in DOMAIN levies
    /\ inplace \/ FreeIds # {}
    /\ \E r \in {rebalance_levy(levies[target], a, inplace)} :
         \E new \in {IF r.ret = <<>> THEN 0 ELSE NewId} :
           /\ levies' = HeapAfter(levies, target, r, new)
           /\ last' = Last("rebalance", r.outcome, target, new, inplace, a)
    /\ UNCHANGED <<call, tariffs, bill, batch, factory, subsidy>>

\* the script drops its reference to a levy object
Discard(target) ==
    /\ target \in DOMAIN levies
    /\ levies' = [i \in DOMAIN levies \ {target} |-> levies[i]]
    /\ last' = Last("discard", "ok", target, 0, FALSE, NoArgs)
    /\ UNCHANGED <<call, tariffs, bill, batch, factory, subsidy>>

NoTariffs == <<>>
NoBatch == <<>>
NoFactory == <<>>

NoSubsidy == <<>>
NoBill == [op |-> "none", fuel |-> "none", consumption |-> Z(0), vat |-> FALSE,
           value |-> Z(0)]

Init ==
    /\ levies = <<>>
    /\ last = NoLast
    /\ call = NoCall
    /\ tariffs = NoTariffs
    /\ bill = NoBill
    /\ batch = NoBatch
    /\ factory = NoFactory
    /\ subsidy = NoSubsidy

Next ==
    \/ \E scheme \in Schemes, revenue \in RevenueArgs, denominator \in DenominatorArgs :
         \E df \in Dataframes(scheme) : Construct(scheme, df, revenue, denominator)
    \/ \E target \in LevyIds, w \in WeightSets, d \in DenominatorSets,
          inplace \in BOOLEAN : Rebalance(target, ArgsOf(w, d), inplace)
    \/ \E target \in LevyIds : Discard(target)

Spec == Init /\ [][Next]_vars

----------------------------------------------------------------------------
(* One rebalance_levy call on a levy built with Levy(...), with the weights *)
(* drawn from a grid: rebalance_levy as a function of its arguments.        *)

WeightSteps == 2

WeightGrid == {Q(k, WeightSteps) : k \in 0..WeightSteps}

\* a levy of 8 and one of 0.018, below twice the tolerance of the check
CallRevenues == {Z(8), Q(9, 500)}

\* supply_gas, supply_elec, customers_gas, customers_elec
CallDenominators == { <<Z(2), Z(4), Z(5), Z(10)>>, <<Z(3), Z(3), Z(1), Z(2)>> }

\* a levy made with the Levy constructor itself
CallLevy(revenue) ==
    Levy("Generic levy", "levy", Z(1), Z(0), Z(0), Z(1), Z(0), Z(0), Z(0),
         Z(1), Z(0), Z(0), Z(0), Z(0), revenue, <<>>)

InitCall ==
    /\ levies = <<>>
    /\ last = NoLast
    /\ tariffs = NoTariffs
    /\ bill = NoBill
    /\ batch = NoBatch
    /\ factory = NoFactory
    /\ subsidy = NoSubsidy
    /\ \E revenue \in CallRevenues, d \in CallDenominators, inplace \in BOOLEAN,
          ew \in WeightGrid, gw \in WeightGrid, tw \in WeightGrid,
          ve \in WeightGrid, fe \in WeightGrid, vg \in WeightGrid, fg \in WeightGrid :
         call = [pc |-> "ready", levy |-> <<CallLevy(revenue)>>,
                 args |-> ArgsOf(Weights(ew, gw, tw, ve, fe, vg, fg), d),
                 inplace |-> inplace, outcome |-> "none",
                 self |-> <<CallLevy(revenue)>>, ret |-> <<>>]

\* call.levy.rebalance_levy(**call.args, inplace=call.inplace)
CallRebalance ==
    /\ call.pc = "ready"
    /\ \E r \in {rebalance_levy(call.levy[1], call.args, call.inplace)} :
         call' = [call EXCEPT !.pc = "done", !.outcome = r.outcome,
                              !.self = <<r.self>>, !.ret = r.ret]
    /\ UNCHANGED <<levies, last, tariffs, bill, batch, factory, subsidy>>

NextCall == CallRebalance

SpecCall == InitCall /\ [][NextCall]_vars

----------------------------------------------------------------------------
(* One rebalance_levy call with denominators that may be 0, on a levy whose *)
(* numbers are Python numbers or NumPy scalars.                             *)

\* each denominator is 0 or not
ZeroOrNot == {Z(0), Z(4)}

\* a split over both fuels, one with no gas share, one with a tax share
DivisorWeights ==
    { Weights(Q(1, 2), Q(1, 2), Z(0), Q(1, 2), Q(1, 2), Q(1, 2), Q(1, 2)),
      Weights(Z(1), Z(0), Z(0), Z(1), Z(0), Z(0), Z(0)),
      Weights(Z(0), Z(1), Z(0), Z(0), Z(0), Z(0), Z(1)),
      Weights(Q(1, 4), Q(1, 2), Q(1, 4), Q(1, 2), Q(1, 2), Q(1, 4), Q(3, 4)) }

InitDivisor ==
    /\ levies = <<>>
    /\ last = NoLast
    /\ tariffs = NoTariffs
    /\ bill = NoBill
    /\ batch = NoBatch
    /\ factory = NoFactory
    /\ subsidy = NoSubsidy
    /\ \E revenue \in CallRevenues \cup {Z(0)}, w \in DivisorWeights,
          sg \in ZeroOrNot, se \in ZeroOrNot, cg \in ZeroOrNot, ce \in ZeroOrNot,
          inplace \in BOOLEAN, numpy \in BOOLEAN :
         call = [pc |-> "ready", levy |-> <<CallLevy(revenue)>>,
                 args |-> ArgsOf(w, <<sg, se, cg, ce>>),
                 inplace |-> inplace, numpy |-> numpy, outcome |-> "none",
                 self |-> <<CallLevy(revenue)>>, ret |-> <<>>]

\* call.levy.rebalance_levy(**call.args, inplace=call.inplace)
CallRebalanceAnyDivisor ==
    /\ call.pc = "ready"
    /\ \E r \in {rebalance_levy_any_divisor(call.levy[1], call.args, call.inplace,
                                            call.numpy)} :
         call' = [call EXCEPT !.pc = "done", !.outcome = r.outcome,
                              !.self = <<r.self>>, !.ret = r.ret]
    /\ UNCHANGED <<levies, last, tariffs, bill, batch, factory, subsidy>>

NextDivisor == CallRebalanceAnyDivisor

SpecDivisor == InitDivisor /\ [][NextDivisor]_vars

----------------------------------------------------------------------------
(* The tariffs of a bill calculation: one tariff object per fuel.  A caller *)
(* writes the policy cost components, then evaluates the tariff.            *)

Fuels == {"electricity", "gas"}

\* the components of a tariff with every component defined
FullTariff(fuel) ==
    Tariff("Other Payment Method", "Other Payment", fuel,
           Z(0), Z(0), Z(-1), Z(3), Z(20), Z(10), Q(1, 2), Z(2), Z(1), Z(4), Z(1), Z(5),
           Z(50), Z(4), Q(-1, 2), Z(6), Z(12), Z(3), Q(1, 4), Z(1), Z(2), Z(3), Z(1), Z(2))

\* <Fuel>StandardCredit.from_dataframe passes levelisation_nil=None and
\* levelisation=None
StandardCreditTariff(fuel) ==
    [FullTariff(fuel) EXCEPT !.name = "Standard Credit",
                             !.short_name = "Standard Credit",
                             !.levelisation_nil = None, !.levelisation = None]

\* a table with empty cells gives NaN components
GappyTariff(fuel) ==
    [StandardCreditTariff(fuel) EXCEPT !.pap_nil = NaN, !.aa_nil = NaN,
                                       !.smncc = NaN]

\* Tariff(...) with no component defined
EmptyTariff(fuel) ==
    Tariff("Prototype", "Prototype", fuel,
           None, None, None, None, None, None, None, None, None, None, None, None,
           None, None, None, None, None, None, None, None, None, None, None, None)

TariffTemplates(fuel) ==
    {FullTariff(fuel), StandardCreditTariff(fuel), GappyTariff(fuel), EmptyTariff(fuel)}

\* the policy costs (pc_nil, pc) a caller writes into a tariff
PolicyCosts == { <<Z(0), Z(0)>>, <<Q(5, 2), Z(7)>> }

\* consumption values, in steps of half a MWh
MaxConsumption == 3

Consumptions == {Q(k, 2) : k \in 0..MaxConsumption}

Bill(op, fuel, consumption, vat, value) ==
    [op |-> op, fuel |-> fuel, consumption |-> consumption, vat |-> vat,
     value |-> value]

InitTariff ==
    /\ levies = <<>>
    /\ last = NoLast
    /\ call = NoCall
    /\ tariffs \in [Fuels -> UNION {TariffTemplates(fuel) : fuel \in Fuels}]
    /\ \A fuel \in Fuels : tariffs[fuel].fuel = fuel
    /\ bill = NoBill
    /\ batch = NoBatch
    /\ factory = NoFactory
    /\ subsidy = NoSubsidy

\* tariff.pc_nil = ...; tariff.pc = ...
SetPolicyCost(fuel, pc_nil, pc) ==
    /\ tariffs' = [tariffs EXCEPT ![fuel].pc_nil = pc_nil, ![fuel].pc = pc]
    /\ bill' = Bill("write", fuel, Z(0), FALSE, Z(0))
    /\ UNCHANGED <<levies, last, call, batch, factory, subsidy>>

\* tariff.calculate_nil_consumption()
EvaluateNil(fuel) ==
    /\ bill' = Bill("nil", fuel, Z(0), FALSE, calculate_nil_consumption(tariffs[fuel]))
    /\ UNCHANGED <<levies, last, call, tariffs, batch, factory, subsidy>>

\* tariff.calculate_variable_consumption(consumption)
EvaluateVariable(fuel, consumption) ==
    /\ bill' = Bill("variable", fuel, consumption, FALSE,
                    calculate_variable_consumption(tariffs[fuel], consumption))
    /\ UNCHANGED <<levies, last, call, tariffs, batch, factory, subsidy>>

\* tariff.calculate_total_consumption(consumption, vat)
EvaluateTotal(fuel, consumption, vat) ==
    /\ bill' = Bill("total", fuel, consumption, vat,
                    calculate_total_consumption(tariffs[fuel], consumption, vat))
    /\ UNCHANGED <<levies, last, call, tariffs, batch, factory, subsidy>>

NextTariff ==
    \/ \E fuel \in Fuels, pc \in PolicyCosts : SetPolicyCost(fuel, pc[1], pc[2])
    \/ \E fuel \in Fuels : EvaluateNil(fuel)
    \/ \E fuel \in Fuels, consumption \in Consumptions :
         EvaluateVariable(fuel, consumption)
    \/ \E fuel \in Fuels, consumption \in Consumptions, vat \in BOOLEAN :
         EvaluateTotal(fuel, consumption, vat)

SpecTariff == InitTariff /\ [][NextTariff]_vars

----------------------------------------------------------------------------
(* One batch call: process_rebalancing_scenarios or                         *)
(* process_rebalancing_scenario_bills on a list of levies and a pair of      *)
(* tariff mappings, with the scenarios, denominators and consumption table   *)
(* drawn from small sets.                                                    *)

\* the levy a factory builds from a table
BuiltLevy(scheme, df, revenue, denominator) ==
    (CHOOSE r \in from_dataframe(scheme, df, revenue, denominator) :
        r.outcome = "ok").levy[1]

\* the lists of levies given to a batch
InputLevyLists ==
    { <<BuiltLevy("ro", RO_df, Z(8), None), BuiltLevy("whd", WHD_df, None, None)>>,
      <<BuiltLevy("ggl", GGL_df, None, Z(16)), BuiltLevy("eco", ECO_df, None, None),
        BuiltLevy("fit", FIT_df, None, None)>>,
      <<BuiltLevy("aahedc", AAHEDC_df, Z(8), Z(16))>> }

FixedWeights == Weights(Q(1, 2), Q(1, 2), Z(0), Z(0), Z(1), Z(0), Z(1))
MixedWeights == Weights(Q(1, 4), Q(1, 2), Q(1, 4), Q(1, 2), Q(1, 2), Q(1, 4), Q(3, 4))
GasVariableWeights == Weights(Z(0), Z(1), Z(0), Z(0), Z(0), Z(1), Z(0))
\* the three fuel weights sum to 3/2
OverweightWeights == Weights(Q(1, 2), Q(1, 2), Q(1, 2), Z(1), Z(0), Z(1), Z(0))

ScenarioNames == {"All fixed", "Mixed", "Gas variable", "Overweight", "RO only"}

\* the weights of a scenario, per levy short_name
ScenarioWeights(name) ==
    CASE name = "All fixed" -> [short_name \in Schemes |-> FixedWeights]
      [] name = "Mixed" ->
           [short_name \in Schemes |->
              IF short_name \in {"ro", "ggl"} THEN MixedWeights ELSE FixedWeights]
      [] name = "Gas variable" -> [short_name \in Schemes |-> GasVariableWeights]
      [] name = "Overweight" -> [short_name \in Schemes |-> OverweightWeights]
      [] name = "RO only" -> [short_name \in {"ro"} |-> MixedWeights]

\* the greatest number of scenarios in a batch
MaxScenarios == 2

\* rebalancing_weights: the scenarios of a batch, in the order of the keys
RebalancingWeights ==
    {[k \in DOMAIN names |-> [name |-> names[k], weights |-> ScenarioWeights(names[k])]] :
       names \in {q \in UNION {[1..n -> ScenarioNames] : n \in 0..MaxScenarios} :
                    \A i, j \in DOMAIN q : i # j => q[i] # q[j]}}

\* levy_denominators: supply_gas, supply_elec, customers_gas, customers_elec;
\* the last dictionary has no entry for "fit" and no gas customers for "aahedc"
LevyDenominators ==
    { [short_name \in Schemes |-> <<Z(2), Z(4), Z(5), Z(10)>>],
      [short_name \in Schemes |->
         IF short_name = "ro" THEN <<Z(3), Z(3), Z(1), Z(2)>>
         ELSE <<Z(2), Z(4), Z(5), Z(10)>>],
      [short_name \in Schemes \ {"fit"} |->
         IF short_name = "aahedc" THEN <<Z(2), Z(4), Z(0), Z(10)>>
         ELSE <<Z(2), Z(4), Z(5), Z(10)>>] }

\* consumption tables: a typical and an off-gas household; a household with
\* no electricity consumption and one with no consumption at all
ConsumptionTables ==
    { << [profile |-> "typical", electricity |-> Z(6), gas |-> Z(24)],
         [profile |-> "off-gas", electricity |-> Z(10), gas |-> Z(0)] >>,
      << [profile |-> "gas only", electricity |-> Z(0), gas |-> Z(8)],
         [profile |-> "vacant", electricity |-> Z(0), gas |-> Z(0)] >> }

ScaleFactors == {Z(1), Z(2)}

SummariesArgs == { <<"fixed", "variable", "total">>, <<"total">>, <<"fixed", "mean">> }

\* elec_bills / gas_bills: a tariff object for "baseline" and for each scenario
BillsOf(tariff) == [name \in {"baseline"} \cup ScenarioNames |-> tariff]

BatchArgs(rebalancing_weights, levy_denominators, consumption_values_df, summaries, consumption_scale_factor, include_baseline) ==
    [rebalancing_weights |-> rebalancing_weights,
     levy_denominators |-> levy_denominators,
     consumption_values_df |-> consumption_values_df,
     summaries |-> summaries,
     consumption_scale_factor |-> consumption_scale_factor,
     include_baseline |-> include_baseline]

\* the objects a script holds before the call (levies, elec_bills, gas_bills),
\* the arguments it is about to pass, the call made, and after it the outcome,
\* the same objects and the table
Batch(op, levy_list, elec_bills, gas_bills, args, result) ==
    [op |-> op, levies |-> levy_list, elec_bills |-> elec_bills,
     gas_bills |-> gas_bills, args |-> args, result |-> result]

NoResult == BillsResult("none", <<>>, <<>>, <<>>, <<>>)

InitBatch ==
    /\ levies = <<>>
    /\ last = NoLast
    /\ call = NoCall
    /\ tariffs = NoTariffs
    /\ bill = NoBill
    /\ factory = NoFactory
    /\ subsidy = NoSubsidy
    /\ \E levy_list \in InputLevyLists,
          template \in {"Other Payment", "Standard Credit"},
          w \in RebalancingWeights, d \in LevyDenominators,
          df \in ConsumptionTables, summaries \in SummariesArgs,
          scale \in ScaleFactors, include_baseline \in BOOLEAN :
         batch = Batch("none", levy_list,
                       BillsOf(IF template = "Other Payment"
                               THEN FullTariff("electricity")
                               ELSE StandardCreditTariff("electricity")),
                       BillsOf(IF template = "Other Payment"
                               THEN FullTariff("gas")
                               ELSE StandardCreditTariff("gas")),
                       BatchArgs(w, d, df, summaries, scale, include_baseline),
                       NoResult)

\* process_rebalancing_scenarios(levies, rebalancing_weights, ...)
ProcessScenarios ==
    /\ batch.op = "none"
    /\ \E a \in {batch.args} :
       \E r \in {process_rebalancing_scenarios(
                     batch.levies, a.rebalancing_weights, a.levy_denominators,
                     a.consumption_values_df, a.summaries,
                     a.consumption_scale_factor, a.include_baseline)} :
         batch' = [batch EXCEPT
                     !.op = "process_rebalancing_scenarios",
                     !.result = BillsResult(r.outcome, r.levies, batch.elec_bills,
                                            batch.gas_bills, r.out)]
    /\ UNCHANGED <<levies, last, call, tariffs, bill, factory, subsidy>>

\* process_rebalancing_scenario_bills(elec_bills, gas_bills, levies, ...),
\* which takes no summaries
ProcessScenarioBills ==
    /\ batch.op = "none"
    /\ \E a \in {batch.args} :
       \E r \in {process_rebalancing_scenario_bills(
                     batch.elec_bills, batch.gas_bills, batch.levies,
                     a.rebalancing_weights, a.levy_denominators,
                     a.consumption_values_df, a.consumption_scale_factor,
                     a.include_baseline)} :
         batch' = [batch EXCEPT
                     !.op = "process_rebalancing_scenario_bills",
                     !.args = [a EXCEPT !.summaries = <<>>],
                     !.result = r]
    /\ UNCHANGED <<levies, last, call, tariffs, bill, factory, subsidy>>

NextBatch ==
    \/ ProcessScenarios
    \/ ProcessScenarioBills

SpecBatch == InitBatch /\ [][NextBatch]_vars

----------------------------------------------------------------------------
(* One factory call: <Variant>.from_dataframe on a published table, with    *)
(* the table, the revenue and the denominator drawn from small sets.        *)

RO_row(ObligationLevel, BuyOutPriceSchemeYear, BuyOutPricePreviousYear) ==
    [UpdateDate |-> 1, SchemeYear |-> "2024-25", ObligationLevel |-> ObligationLevel,
     BuyOutPriceSchemeYear |-> BuyOutPriceSchemeYear,
     BuyOutPricePreviousYear |-> BuyOutPricePreviousYear,
     ForecastAnnualRPIPreviousYear |-> Z(5)]

WHD_row(TargetSpendingForSchemeYear, CoreSpending, NoncoreSpending, ObligatedSuppliersCustomerBase, CompulsorySupplierFractionOfCoreGroup) ==
    [UpdateDate |-> 1, SchemeYear |-> "2024-25",
     TargetSpendingForSchemeYear |-> TargetSpendingForSchemeYear,
     CoreSpending |-> CoreSpending, NoncoreSpending |-> NoncoreSpending,
     ObligatedSuppliersCustomerBase |-> ObligatedSuppliersCustomerBase,
     CompulsorySupplierFractionOfCoreGroup |-> CompulsorySupplierFractionOfCoreGroup]

\* an ECO row from the gas fields g and the electricity fields e
\* (<<ECO4 cost, GBIS cost, fully obligated share>>) and the ECO4 deflator
ECO_row(g, e, GDPDeflatorToCurrentPricesECO4) ==
    [UpdateDate |-> 1, SchemeYear |-> "2024-25",
     AnnualisedCostECO4Gas |-> g[1], AnnualisedCostECO4Electricity |-> e[1],
     AnnualisedCostGBISGas |-> g[2], AnnualisedCostGBISElectricity |-> e[2],
     GDPDeflatorToCurrentPricesECO4 |-> GDPDeflatorToCurrentPricesECO4,
     GDPDeflatorToCurrentPricesGBIS |-> Z(10),
     FullyObligatedShareOfObligatedSupplierSupplyGas |-> g[3],
     FullyObligatedShareOfObligatedSupplierSupplyElectricity |-> e[3],
     ObligatedSupplierVolumeGas |-> Z(5),
     ObligatedSupplierVolumeElectricity |-> Z(2)]

\* the tables given to each factory
FactoryTables(scheme) ==
    CASE scheme = "ro" ->
           {RO_df} \cup
           {<<RO_row(level, scheme_price, previous_price)>> :
              level \in {NaN, Q(1, 4)}, scheme_price \in {NaN, Z(4)},
              previous_price \in {NaN, Z(2)}}
      [] scheme = "aahedc" -> {AAHEDC_df}
      [] scheme = "ggl" -> {GGL_df}
      [] scheme = "whd" ->
           {WHD_df,
            <<WHD_row(Z(500000000), NaN, NaN, Z(25000000), NaN)>>,
            <<WHD_row(Z(30), Z(20), Z(10), Z(4), Q(1, 2))>>,
            <<WHD_row(Z(30), Z(20), Z(10), Z(4), Z(1))>>}
      [] scheme = "eco" ->
           {ECO_df} \cup
           {<<ECO_row(g, <<cost, gbis, share>>, deflator)>> :
              g \in {<<Z(10), Z(5), NaN>>, <<Z(10), NaN, NaN>>,
                    <<Z(10), NaN, Q(1, 2)>>, <<NaN, Z(5), NaN>>},
              cost \in {NaN, Z(10)}, gbis \in {NaN, Z(6)}, share \in {NaN, Q(1, 2)},
              deflator \in {NaN, Z(20)}}
      [] scheme = "fit" -> {FIT_df, FIT_df_exempt}

\* a row of the scheme's table, and the row without its defining field
BaseRow(scheme) ==
    CASE scheme = "ro" -> RO_df[1]
      [] scheme = "aahedc" -> AAHEDC_df[1]
      [] scheme = "ggl" -> GGL_df[1]
      [] scheme = "whd" -> WHD_df[1]
      [] scheme = "eco" -> ECO_df[1]
      [] scheme = "fit" -> FIT_df[1]

BlankRow(scheme, row) ==
    IF scheme = "aahedc"
    THEN [row EXCEPT !.TariffCurrentYear = NaN, !.TariffPreviousYear = NaN]
    ELSE [row EXCEPT ![DefiningField(scheme)] = NaN]

\* tables of three rows in every order: an older and a newer row with the
\* defining field, and the newest row without it
DatedTables(scheme) ==
    LET rows == << [BaseRow(scheme) EXCEPT ![DateField(scheme)] = 1],
                   [BaseRow(scheme) EXCEPT ![DateField(scheme)] = 2],
                   BlankRow(scheme, [BaseRow(scheme) EXCEPT ![DateField(scheme)] = 3]) >>
    IN  {[i \in 1..3 |-> rows[q[i]]] :
           q \in {r \in [1..3 -> 1..3] : \A i, j \in 1..3 : i # j => r[i] # r[j]}}

\* the revenue and denominator arguments of a factory call
FactoryRevenues == {None, Z(0), Z(8)}
FactoryDenominators == {None, Z(16)}

Factory(pc, scheme, df, revenue, denominator, outcome, levy) ==
    [pc |-> pc, scheme |-> scheme, df |-> df, revenue |-> revenue,
     denominator |-> denominator, outcome |-> outcome, levy |-> levy]

InitFactory ==
    /\ levies = <<>>
    /\ last = NoLast
    /\ call = NoCall
    /\ tariffs = NoTariffs
    /\ bill = NoBill
    /\ batch = NoBatch
    /\ subsidy = NoSubsidy
    /\ \E scheme \in Schemes, revenue \in FactoryRevenues,
          denominator \in FactoryDenominators :
         \E df \in FactoryTables(scheme) \cup DatedTables(scheme) :
           factory = Factory("ready", scheme, df, revenue, denominator, "none", <<>>)

\* <Variant>.from_dataframe(df, revenue, denominator)
FromDataframe ==
    /\ factory.pc = "ready"
    /\ \E r \in from_dataframe(factory.scheme, factory.df, factory.revenue,
                               factory.denominator) :
         factory' = [factory EXCEPT !.pc = "done", !.outcome = r.outcome,
                                    !.levy = r.levy]
    /\ UNCHANGED <<levies, last, call, tariffs, bill, batch, subsidy>>

NextFactory == FromDataframe

SpecFactory == InitFactory /\ [][NextFactory]_vars


----------------------------------------------------------------------------
(* One call of subsidisation_table on the concatenated outputs of the two   *)
(* batch procedures for a table of archetypes.                              *)

Archetypes == {"A1", "B4", "C7"}

\* the archetype column of the consumption table: the archetypes in any
\* order, with or without the "Typical" row in front
ArchetypeTables ==
    {q \in [1..3 -> Archetypes] : \A i, j \in 1..3 : i # j => q[i] # q[j]}
    \cup {<<"Typical">> \o q : q \in {r \in [1..3 -> Archetypes] :
                                         \A i, j \in 1..3 : i # j => r[i] # r[j]}}

ArchetypeSize(profile) ==
    CASE profile = "A1" -> Z(4) [] profile = "B4" -> Z(6) [] profile = "C7" -> Z(10)
      [] profile = "Typical" -> Z(1)

\* total bill incl VAT of an archetype under a scenario
TotalBill(profile, scenario) ==
    CASE scenario = "Baseline" ->
           (CASE profile = "A1" -> Z(100) [] profile = "B4" -> Z(200)
              [] profile = "C7" -> Z(300) [] profile = "Typical" -> Z(150))
      [] scenario = "Gas variable" ->
           (CASE profile = "A1" -> Z(110) [] profile = "B4" -> Z(190)
              [] profile = "C7" -> Z(300) [] profile = "Typical" -> Z(155))
      [] scenario = "All fixed" ->
           (CASE profile = "A1" -> Z(90) [] profile = "B4" -> Z(230)
              [] profile = "C7" -> Z(280) [] profile = "Typical" -> Z(150))

\* the melted rows of one variable of one scenario, in the table's order
Block(table, variable, scenario) ==
    [i \in DOMAIN table |->
       Row(table[i], variable,
           IF variable = "ArchetypeSize" THEN ArchetypeSize(table[i])
           ELSE TotalBill(table[i], scenario),
           scenario)]

\* pd.concat([scenario_outputs, scenario_bill_outputs]) for a baseline and
\* two scenarios
ScenarioOutputs(table) ==
    Block(table, "ArchetypeSize", "Baseline")
    \o Block(table, "ArchetypeSize", "Gas variable")
    \o Block(table, "ArchetypeSize", "All fixed")
    \o Block(table, "gas bill incl VAT", "Baseline")
    \o Block(table, "total bill incl VAT", "Baseline")
    \o Block(table, "total bill incl VAT", "Gas variable")
    \o Block(table, "total bill incl VAT", "All fixed")

\* ofgem_archetypes_scheme_eligibility()
SchemeEligibility ==
    [p \in Archetypes \cup {"Typical"} |->
       [ECOEligibleSize |-> CASE p = "A1" -> Z(1) [] p = "B4" -> Z(2)
                                 [] OTHER -> Z(0),
        WHDEligibleSize |-> CASE p = "C7" -> Z(5) [] OTHER -> Z(0)]]

\* transform_income_decile_eligibility(..., eligible_deciles): the households
\* of the lowest deciles, all of them for ten deciles
DecileEligibility(eligible_deciles) ==
    [p \in Archetypes \cup {"Typical"} |->
       [IncomeDecilesEligibilitySize |->
          IF eligible_deciles = 10 THEN ArchetypeSize(p)
          ELSE CASE p = "A1" -> Z(2) [] p = "B4" -> Z(3) [] p = "C7" -> Z(5)
                 [] OTHER -> Z(0)]]

\* eligibility_criteria, eligibility_dataframe, eligible_deciles
EligibilityArgs ==
    { <<"ECO", SchemeEligibility, 0>>,
      <<"Warm Homes Discount", SchemeEligibility, 0>>,
      <<"Income Deciles", DecileEligibility(4), 4>>,
      <<"Income Deciles", DecileEligibility(10), 10>>,
      <<"Fuel Poverty", SchemeEligibility, 0>>,
      <<"ECO", DecileEligibility(4), 0>> }

Rebates == {Z(0), Z(30), Z(150)}

InitSubsidy ==
    /\ levies = <<>>
    /\ last = NoLast
    /\ call = NoCall
    /\ tariffs = NoTariffs
    /\ bill = NoBill
    /\ batch = NoBatch
    /\ factory = NoFactory
    /\ \E table \in ArchetypeTables, scenario_name \in {"Gas variable", "All fixed"},
          rebate \in Rebates, e \in EligibilityArgs,
          ineligible_households_pay \in BOOLEAN :
         subsidy = [pc |-> "ready",
                    table |-> table,
                    scenario_outputs |-> ScenarioOutputs(table),
                    scenario_name |-> scenario_name,
                    rebate |-> rebate,
                    eligibility_criteria |-> e[1],
                    eligibility_dataframe |-> e[2],
                    eligible_deciles |-> e[3],
                    ineligible_households_pay |-> ineligible_households_pay,
                    outcome |-> "none",
                    out |-> <<>>]

\* subsidisation_table(scenario_outputs, scenario_name, rebate, ...)
SubsidisationTable ==
    /\ subsidy.pc = "ready"
    /\ \E r \in {subsidisation_table(
                     subsidy.scenario_outputs, subsidy.scenario_name, subsidy.rebate,
                     subsidy.eligibility_criteria, subsidy.eligibility_dataframe,
                     subsidy.eligible_deciles, subsidy.ineligible_households_pay)} :
         subsidy' = [subsidy EXCEPT !.pc = "done", !.outcome = r.outcome,
                                    !.out = r.out]
    /\ UNCHANGED <<levies, last, call, tariffs, bill, batch, factory>>

NextSubsidy == SubsidisationTable

SpecSubsidy == InitSubsidy /\ [][NextSubsidy]_vars

----------------------------------------------------------------------------
(* Properties of rebalance_levy as a function of its arguments (SpecCall) *)

Sum3(x, y, z) == RAdd(RAdd(x, y), z)

\* the two sum-to-1 conditions on the weights of a call
SumsToOne(a) ==
    /\ Sum3(a.new_electricity_weight, a.new_gas_weight, a.new_tax_weight) = Z(1)
    /\ RGt(a.new_electricity_weight, Z(0))
         => RAdd(a.new_variable_weight_elec, a.new_fixed_weight_elec) = Z(1)
    /\ RGt(a.new_gas_weight, Z(0))
         => RAdd(a.new_variable_weight_gas, a.new_fixed_weight_gas) = Z(1)

DenominatorsPositive(a) ==
    /\ RGt(a.supply_gas, Z(0)) /\ RGt(a.supply_elec, Z(0))
    /\ RGt(a.customers_gas, Z(0)) /\ RGt(a.customers_elec, Z(0))

\* what the rates of levy l collect over the denominators of a, plus the tax share
Collected(l, a, R) ==
    RAdd(RAdd(RAdd(RMul(l.gas_variable_rate, a.supply_gas),
                   RMul(l.gas_fixed_rate, a.customers_gas)),
              RAdd(RMul(l.electricity_variable_rate, a.supply_elec),
                   RMul(l.electricity_fixed_rate, a.customers_elec))),
         RMul(R, a.new_tax_weight))

\* the revenue the weights of a re-apportion:
\* R * (gw * (vg + fg) + ew * (ve + fe) + tw)
Apportioned(a, R) ==
    RMul(R, Sum3(RMul(a.new_gas_weight,
                      RAdd(a.new_variable_weight_gas, a.new_fixed_weight_gas)),
                 RMul(a.new_electricity_weight,
                      RAdd(a.new_variable_weight_elec, a.new_fixed_weight_elec)),
                 a.new_tax_weight))

Within(x, y) == RLt(RAbs(RSub(x, y)), Q(1, 100))

\* the levy a finished, successful call produced
CallResult == IF call.inplace THEN call.self[1] ELSE call.ret[1]

CallDone == call.pc = "done"

\* C1: revenue conservation.  A call whose weights (each in the documented
\* range [0, 1]) satisfy the two sum-to-1 conditions, with positive
\* denominators, raises no validation error and the
\* rates it produces collect the levy's revenue within 0.01:
\* |gas_var*supply_gas + gas_fixed*customers_gas + elec_var*supply_elec
\*  + elec_fixed*customers_elec + R*new_tax_weight - R| < 0.01.
C1_RevenueConservation ==
    (CallDone /\ SumsToOne(call.args) /\ DenominatorsPositive(call.args))
      => /\ call.outcome = "ok"
         /\ Within(Collected(CallResult, call.args, call.levy[1].revenue),
                   call.levy[1].revenue)

\* a conforming call that splits a positive revenue over both fuels and, on
\* gas, over both charging bases
C1_Witness ==
    /\ CallDone /\ SumsToOne(call.args) /\ call.outcome = "ok"
    /\ call.levy[1].revenue = Z(8)
    /\ call.args.new_electricity_weight = Q(1, 2)
    /\ call.args.new_gas_weight = Q(1, 2)
    /\ call.args.new_variable_weight_gas = Q(1, 2)
    /\ call.args.new_fixed_weight_gas = Q(1, 2)
    /\ CallResult.gas_fixed_rate # Z(0)

\* C2 as stated: every call whose weights do not each sum correctly raises the
\* validation error and produces no rebalanced levy.
C2_RejectsEveryBadSum ==
    (CallDone /\ DenominatorsPositive(call.args) /\ ~SumsToOne(call.args))
      => /\ call.outcome = "ValueError"
         /\ call.ret = <<>>
         /\ call.self = call.levy

\* C2 amended: the validation error is raised exactly when the revenue the
\* weights re-apportion, R*(gw*(vg+fg) + ew*(ve+fe) + tw), differs from R by
\* 0.01 or more; a call that raises returns no levy and leaves the levy it was
\* called on as it was.
C2_RejectsUnconservedRevenue ==
    (CallDone /\ DenominatorsPositive(call.args))
      => /\ call.outcome = "ValueError"
              <=> ~Within(Apportioned(call.args, call.levy[1].revenue),
                          call.levy[1].revenue)
         /\ call.outcome = "ValueError"
              => (call.ret = <<>> /\ call.self = call.levy)

\* a call rejected for fuel weights that sum to 3/2
C2_Witness ==
    /\ CallDone /\ call.outcome = "ValueError"
    /\ ~SumsToOne(call.args)
    /\ call.levy[1].revenue = Z(8)
    /\ Sum3(call.args.new_electricity_weight, call.args.new_gas_weight,
            call.args.new_tax_weight) = Q(3, 2)

----------------------------------------------------------------------------
(* Properties of the levy objects of a session (Spec) *)

LastRebalanced == last.op = "rebalance" /\ last.outcome = "ok"

\* the levy the last successful rebalance_levy call produced
LastResult == IF last.inplace THEN levies[last.target] ELSE levies[last.ret]

\* revenue * fuel weight * basis weight / denominator
ExpectedRate(R, fuel_weight, basis_weight, denominator) ==
    RDiv(RMul(RMul(R, fuel_weight), basis_weight), denominator)

\* l carries the weights of a, and the rates and tax share that a gives a
\* levy of revenue R
CarriesNewValues(l, a, R) ==
    /\ l.electricity_weight = a.new_electricity_weight
    /\ l.gas_weight = a.new_gas_weight
    /\ l.tax_weight = a.new_tax_weight
    /\ l.electricity_variable_weight = a.new_variable_weight_elec
    /\ l.electricity_fixed_weight = a.new_fixed_weight_elec
    /\ l.gas_variable_weight = a.new_variable_weight_gas
    /\ l.gas_fixed_weight = a.new_fixed_weight_gas
    /\ l.electricity_variable_rate =
         ExpectedRate(R, a.new_electricity_weight, a.new_variable_weight_elec,
                      a.supply_elec)
    /\ l.electricity_fixed_rate =
         ExpectedRate(R, a.new_electricity_weight, a.new_fixed_weight_elec,
                      a.customers_elec)
    /\ l.gas_variable_rate =
         ExpectedRate(R, a.new_gas_weight, a.new_variable_weight_gas, a.supply_gas)
    /\ l.gas_fixed_rate =
         ExpectedRate(R, a.new_gas_weight, a.new_fixed_weight_gas, a.customers_gas)
    /\ l.general_taxation = RMul(R, a.new_tax_weight)

SameOtherFields(l, m) ==
    /\ l.name = m.name /\ l.short_name = m.short_name
    /\ l.revenue = m.revenue /\ l.published = m.published

\* C3: with inplace=False a successful call returns a new levy carrying the
\* new weights, the new rates and general_taxation = revenue*new_tax_weight,
\* and leaves every field of the original unchanged; and no call on one levy
\* object (in place or not) changes any other levy object.
C3_CopyIsIndependent ==
    [][ last'.op = "rebalance" =>
          /\ \A i \in DOMAIN levies \ {last'.target} :
               i \in DOMAIN levies' /\ levies'[i] = levies[i]
          /\ (last'.outcome = "ok" /\ ~last'.inplace) =>
               /\ last'.ret \notin DOMAIN levies
               /\ last'.ret \in DOMAIN levies'
               /\ levies'[last'.target] = levies[last'.target]
               /\ CarriesNewValues(levies'[last'.ret], last'.args,
                                   levies[last'.target].revenue)
               /\ SameOtherFields(levies'[last'.ret], levies[last'.target])
      ]_vars

\* a copy was returned that differs from its source, which is still live
C3_Witness ==
    /\ LastRebalanced /\ ~last.inplace
    /\ last.ret \in DOMAIN levies /\ last.target \in DOMAIN levies
    /\ levies[last.ret].tax_weight # levies[last.target].tax_weight
    /\ levies[last.ret].gas_fixed_rate # levies[last.target].gas_fixed_rate

\* C4: with inplace=True a successful call returns nothing and leaves the
\* levy with exactly the fields the same call with inplace=False returns in
\* its copy; name, short_name, revenue and the published fields are unchanged.
C4_InplaceMatchesCopy ==
    [][ (last'.op = "rebalance" /\ last'.outcome = "ok" /\ last'.inplace) =>
          /\ last'.ret = 0
          /\ DOMAIN levies' = DOMAIN levies
          /\ levies'[last'.target]
               = rebalance_levy(levies[last'.target], last'.args, FALSE).ret[1]
          /\ SameOtherFields(levies'[last'.target], levies[last'.target])
      ]_vars

\* a levy was rebalanced in place to a split over both fuels and tax
C4_Witness ==
    /\ LastRebalanced /\ last.inplace
    /\ levies[last.target].tax_weight = Q(1, 4)
    /\ levies[last.target].gas_fixed_rate # levies[last.target].electricity_fixed_rate

\* C5: failure is atomic.  Whenever rebalance_levy raises the validation
\* error, every levy object (the one it was called on included) has the
\* fields it had before the call, in inplace mode as well as in copy mode.
C5_FailureIsAtomic ==
    [][ (last'.op = "rebalance" /\ last'.outcome = "ValueError")
          => levies' = levies ]_vars

\* an in-place call has just been rejected
C5_Witness ==
    /\ last.op = "rebalance" /\ last.outcome = "ValueError" /\ last.inplace
    /\ last.target \in DOMAIN levies

\* C6: revenue is conserved.  No step changes the revenue of a levy object,
\* and a returned copy has the revenue of the levy it was made from; so every
\* levy reached by rebalancing has the revenue of the constructed levy.
C6_RevenueConserved ==
    [][ /\ \A i \in DOMAIN levies \cap DOMAIN levies' :
             levies'[i].revenue = levies[i].revenue
        /\ (last'.op = "rebalance" /\ last'.ret # 0) =>
             levies'[last'.ret].revenue = levies[last'.target].revenue
      ]_vars

\* a copy with a tax share was returned, with the revenue of its source
C6_Witness ==
    /\ LastRebalanced /\ ~last.inplace
    /\ last.target \in DOMAIN levies
    /\ levies[last.ret].revenue = levies[last.target].revenue
    /\ levies[last.ret].general_taxation # Z(0)

\* the weight invariant of the Levy docstring
WeightInvariant(l) ==
    /\ Sum3(l.electricity_weight, l.gas_weight, l.tax_weight) = Z(1)
    /\ RGt(l.electricity_weight, Z(0))
         => RAdd(l.electricity_variable_weight, l.electricity_fixed_weight) = Z(1)
    /\ RGt(l.gas_weight, Z(0))
         => RAdd(l.gas_variable_weight, l.gas_fixed_weight) = Z(1)

\* C7 as stated: every levy object of every reachable state satisfies the
\* weight invariant.
C7_WeightInvariantEverywhere ==
    \A i \in DOMAIN levies : WeightInvariant(levies[i])

\* C7 amended: every levy a factory builds satisfies the weight invariant, and
\* the levy a successful rebalance_levy call produces satisfies it exactly when
\* the weights passed to that call satisfy the two sum-to-1 conditions.
C7_WeightInvariantFollowsArgs ==
    /\ (last.op = "construct" /\ last.outcome = "ok")
         => WeightInvariant(levies[last.ret])
    /\ LastRebalanced
         => (WeightInvariant(LastResult) <=> SumsToOne(last.args))

\* a call with conforming weights produced a levy with a tax share
C7_Witness ==
    /\ LastRebalanced /\ SumsToOne(last.args)
    /\ WeightInvariant(LastResult)
    /\ LastResult.tax_weight = Q(1, 4)
    /\ LastResult.electricity_fixed_weight # LastResult.gas_fixed_weight

RatesNonNegative(l) ==
    /\ RGe(l.electricity_variable_rate, Z(0))
    /\ RGe(l.electricity_fixed_rate, Z(0))
    /\ RGe(l.gas_variable_rate, Z(0))
    /\ RGe(l.gas_fixed_rate, Z(0))


\* the published numbers of a row, each non-negative where present
InputsNonNegative(row) ==
    \A f \in DOMAIN row :
        f \in {"UpdateDate", "SchemeYear", "ChargeRestrictionPeriod1",
               "ChargeRestrictionPeriod2", "LookupPeriod",
               "ChargeRestrictionPeriod2_start"}
        \/ isna(row[f]) \/ RGe(row[f], Z(0))

\* the divisor of the scheme's rate formula is positive
RateDivisorPositive(l) ==
    CASE l.short_name = "fit" ->
           RGt(RSub(RSub(l.published.TotalElectricitySupplied,
                         l.published.ExemptSupplyOutsideUK),
                    l.published.ExemptSupplyEII), Z(0))
      [] l.short_name = "whd" ->
           RGt(l.published.ObligatedSuppliersCustomerBase, Z(0))
      [] l.short_name = "eco" ->
           /\ RGt(l.published.ObligatedSupplierVolumeGas, Z(0))
           /\ RGt(l.published.ObligatedSupplierVolumeElectricity, Z(0))
      [] OTHER -> TRUE

WeightsNonNegative(a) ==
    /\ RGe(a.new_electricity_weight, Z(0)) /\ RGe(a.new_gas_weight, Z(0))
    /\ RGe(a.new_tax_weight, Z(0))
    /\ RGe(a.new_variable_weight_elec, Z(0)) /\ RGe(a.new_fixed_weight_elec, Z(0))
    /\ RGe(a.new_variable_weight_gas, Z(0)) /\ RGe(a.new_fixed_weight_gas, Z(0))

\* C8 as stated: the four rates of every levy object are >= 0 in every
\* reachable state, for levies built from non-negative inputs, with a
\* non-negative revenue (every call of the session has positive denominators).
C8_RatesNonNegativeEverywhere ==
    \A i \in DOMAIN levies :
        (InputsNonNegative(levies[i].published) /\ RGe(levies[i].revenue, Z(0)))
          => RatesNonNegative(levies[i])

\* C8 amended: the four rates are >= 0 after construction from non-negative
\* inputs whose rate divisor is positive, and after a successful
\* rebalance_levy call with non-negative revenue, positive denominators and
\* non-negative weights.
C8_RatesNonNegativeForNonNegativeWeights ==
    /\ (last.op = "construct" /\ last.outcome = "ok"
        /\ InputsNonNegative(levies[last.ret].published)
        /\ RateDivisorPositive(levies[last.ret]))
         => RatesNonNegative(levies[last.ret])
    /\ (LastRebalanced /\ RGe(LastResult.revenue, Z(0))
        /\ DenominatorsPositive(last.args) /\ WeightsNonNegative(last.args))
         => RatesNonNegative(LastResult)

\* a call with non-negative weights gave positive fixed and variable gas rates
C8_Witness ==
    /\ LastRebalanced /\ WeightsNonNegative(last.args)
    /\ RGt(LastResult.revenue, Z(0))
    /\ RGt(LastResult.gas_fixed_rate, Z(0))
    /\ RGt(LastResult.gas_variable_rate, Z(0))
    /\ RGt(LastResult.electricity_fixed_rate, Z(0))

----------------------------------------------------------------------------
(* Properties of the tariff evaluation (SpecTariff) *)

NilNames ==
    {"df_nil", "cm_nil", "aa_nil", "pc_nil", "nc_nil", "oc_nil", "smncc_nil",
     "paac_nil", "pap_nil", "ebit_nil", "hap_nil", "levelisation_nil"}

VariableNames ==
    {"df", "cm", "aa", "pc", "nc", "oc", "smncc", "paac", "pap", "ebit", "hap",
     "levelisation"}

\* the sum of t's fields named in `names`, each scaled by `factor`
RECURSIVE SumOver(_, _, _)
SumOver(t, names, factor) ==
    IF names = {} THEN Z(0)
    ELSE LET n == CHOOSE x \in names : TRUE
         IN  RAdd(RMul(t[n], factor), SumOver(t, names \ {n}, factor))

Defined(t, names) == {n \in names : t[n] # NaN /\ t[n] # None}

\* the sum of the defined nil components, and of the defined variable
\* components times c
DefinedNilSum(t) == SumOver(t, Defined(t, NilNames), Z(1))
DefinedVariableSum(t, c) == SumOver(t, Defined(t, VariableNames), c)

\* C9: calculate_total_consumption(c, vat) is ((the sum of the defined nil
\* components if c > 0 else 0) + the sum of the defined variable components
\* times c), times 1.05 with vat and 1 without; a consumption of exactly 0
\* gives a total of 0.
C9_TotalConsumption ==
    bill.op = "total" =>
      LET t == tariffs[bill.fuel]
          c == bill.consumption
          net == RAdd(IF RGt(c, Z(0)) THEN DefinedNilSum(t) ELSE Z(0),
                      DefinedVariableSum(t, c))
      IN  /\ bill.vat => bill.value = RDiv(RMul(net, Z(105)), Z(100))
          /\ ~bill.vat => bill.value = net
          /\ c = Z(0) => bill.value = Z(0)

\* a zero-consumption bill, with VAT, of a tariff with a standing charge
C9_Witness ==
    /\ bill.op = "total" /\ bill.consumption = Z(0) /\ bill.vat
    /\ RGt(DefinedNilSum(tariffs[bill.fuel]), Z(0))
    /\ bill.value = Z(0)

\* C10: undefined components are excluded from the sums.
\* calculate_nil_consumption is the sum of exactly the defined nil components,
\* calculate_variable_consumption(c) the sum of exactly the defined variable
\* components times c, and each result, like the total, is a defined number
\* whichever components are undefined.
C10_UndefinedExcluded ==
    /\ bill.op = "nil" =>
         /\ bill.value = DefinedNilSum(tariffs[bill.fuel])
         /\ IsNum(bill.value)
    /\ bill.op = "variable" =>
         /\ bill.value = DefinedVariableSum(tariffs[bill.fuel], bill.consumption)
         /\ IsNum(bill.value)
    /\ bill.op = "total" => IsNum(bill.value)

\* the nil sum of a tariff whose levelisation_nil is None and whose pap_nil
\* is NaN
C10_Witness ==
    /\ bill.op = "nil"
    /\ tariffs[bill.fuel].levelisation_nil = None
    /\ tariffs[bill.fuel].pap_nil = NaN
    /\ RGt(bill.value, Z(0))

----------------------------------------------------------------------------
(* Properties of the batch procedures (SpecBatch) *)

ScenariosDone ==
    batch.op = "process_rebalancing_scenarios" /\ batch.result.outcome = "ok"

\* the levies behind block b of the returned table: the input levies for the
\* first block (Baseline), and for block k + 1 each input levy with the
\* values that the k-th scenario's weights and the denominators for its
\* short_name give it
BlockLevies(b) ==
    IF b = 1 THEN batch.levies
    ELSE [i \in DOMAIN batch.levies |->
            UpdateCopy(batch.levies[i],
                       ArgsOf(batch.args.rebalancing_weights[b - 1].weights[
                                  batch.levies[i].short_name],
                              batch.args.levy_denominators[
                                  batch.levies[i].short_name]))]

BlockName(b) ==
    IF b = 1 THEN "Baseline" ELSE batch.args.rebalancing_weights[b - 1].name

\* the values reported in block b for a profile under a variable name
Reported(b, profile, variable) ==
    {r.value : r \in {q \in batch.result.out[b] :
                        q.profile = profile /\ q.variable = variable}}

\* what an electricity-only customer, and a customer of both fuels, pays
ElectricityOnlyCost(l, e) ==
    RAdd(RMul(l.electricity_variable_rate, e), l.electricity_fixed_rate)
DualFuelCost(l, e, g) ==
    RAdd(RAdd(RMul(l.electricity_variable_rate, e), RMul(l.gas_variable_rate, g)),
         RAdd(l.electricity_fixed_rate, l.gas_fixed_rate))

\* C11: off-gas household.  In every block of the table, the 'total levy
\* costs' of an archetype whose gas consumption is exactly 0 is the sum over
\* the levies of the electricity variable and fixed cost only (customer flags
\* True, False: no gas fixed rate), and that of an archetype with non-zero gas
\* consumption is the sum with both customer flags True.
C11_OffGasTotal ==
    (ScenariosDone /\ "total" \in Range(batch.args.summaries)) =>
      \A b \in DOMAIN batch.result.out :
        \A i \in DOMAIN batch.args.consumption_values_df :
          LET x == batch.args.consumption_values_df[i]
              e == RDiv(x.electricity, batch.args.consumption_scale_factor)
              g == RDiv(x.gas, batch.args.consumption_scale_factor)
              ls == BlockLevies(b)
          IN  Reported(b, x.profile, "total levy costs") =
                { IF x.gas = Z(0)
                  THEN sum([j \in DOMAIN ls |-> ElectricityOnlyCost(ls[j], e)])
                  ELSE sum([j \in DOMAIN ls |-> DualFuelCost(ls[j], e, g)]) }

\* an off-gas archetype's total over levies that have a gas fixed rate
C11_Witness ==
    /\ ScenariosDone /\ "total" \in Range(batch.args.summaries)
    /\ \E i \in DOMAIN batch.args.consumption_values_df :
         LET x == batch.args.consumption_values_df[i]
             e == RDiv(x.electricity, batch.args.consumption_scale_factor)
         IN  /\ x.gas = Z(0)
             /\ \E j \in DOMAIN batch.levies : RGt(batch.levies[j].gas_fixed_rate, Z(0))
             /\ Reported(1, x.profile, "total levy costs") =
                  {sum([j \in DOMAIN batch.levies |->
                          ElectricityOnlyCost(batch.levies[j], e)])}
             /\ Reported(1, x.profile, "total levy costs") #
                  {sum([j \in DOMAIN batch.levies |->
                          DualFuelCost(batch.levies[j], e, Z(0))])}

\* the rows of block b, computed from the levies behind it
BlockRows(b) ==
    _calculate_policy_costs(BlockLevies(b), batch.args.consumption_values_df,
                            batch.args.summaries, BlockName(b),
                            batch.args.consumption_scale_factor).rows

\* C12: the table returned by process_rebalancing_scenarios holds one block
\* of rows per scenario of the weights mapping, in the order of its keys,
\* after the Baseline block.  The rows of scenario S are the cost components
\* computed from the input levies each rebalanced with S's weights for its
\* short_name and the denominators for its short_name, and are tagged S; the
\* rows tagged 'Baseline' are computed from the input levies unmodified.
C12_ScenarioRows ==
    ScenariosDone =>
      /\ Len(batch.result.out) = 1 + Len(batch.args.rebalancing_weights)
      /\ \A b \in DOMAIN batch.result.out :
           /\ batch.result.out[b] = BlockRows(b)
           /\ \A r \in batch.result.out[b] : r.scenario = BlockName(b)

\* a table of two scenarios in which RO and WHD were given different weights
\* and the scenario's costs differ from the Baseline's
C12_Witness ==
    /\ ScenariosDone
    /\ Len(batch.args.rebalancing_weights) = 2
    /\ batch.args.rebalancing_weights[2].name = "Mixed"
    /\ Len(batch.levies) = 2
    /\ batch.args.summaries = <<"fixed", "variable", "total">>
    /\ \E x \in Range(batch.args.consumption_values_df) :
         /\ Reported(3, x.profile, "total levy costs")
              # Reported(1, x.profile, "total levy costs")
         /\ Reported(3, x.profile, "gas variable levy costs")
              # Reported(2, x.profile, "gas variable levy costs")

\* the table process_rebalancing_scenarios returns for the batch that holds
\* the k-th scenario of the call alone
AloneOut(k) ==
    process_rebalancing_scenarios(
        batch.levies, <<batch.args.rebalancing_weights[k]>>,
        batch.args.levy_denominators, batch.args.consumption_values_df,
        batch.args.summaries, batch.args.consumption_scale_factor, TRUE).out

\* C13: scenario isolation.  The rows a batch produces for a scenario are the
\* rows produced for that scenario processed alone on the same input levies,
\* whatever other scenarios the batch holds and wherever the scenario stands
\* in it; and after a batch call of either procedure, successful or not, the
\* input levies have the fields they had before it.
C13_ScenarioIsolation ==
    /\ ScenariosDone =>
         \A k \in DOMAIN batch.args.rebalancing_weights :
           batch.result.out[k + 1] = AloneOut(k)[2]
    /\ batch.op # "none" => batch.result.levies = batch.levies

\* a batch of two scenarios with different rows, the second one other than
\* the input split, the input levies as before
C13_Witness ==
    /\ ScenariosDone
    /\ Len(batch.args.rebalancing_weights) = 2
    /\ batch.args.rebalancing_weights[1].name = "Gas variable"
    /\ batch.args.rebalancing_weights[2].name = "All fixed"
    /\ batch.result.levies = batch.levies
    /\ \E x \in Range(batch.args.consumption_values_df) :
         /\ Reported(3, x.profile, "total levy costs")
              # Reported(2, x.profile, "total levy costs")
         /\ Reported(3, x.profile, "total levy costs")
              # Reported(1, x.profile, "total levy costs")
    /\ batch.result.out[3] = AloneOut(2)[2]

BillsCalled == batch.op = "process_rebalancing_scenario_bills"

\* every scenario of the call rebalances every input levy without error
ScenariosRebalance ==
    \A k \in DOMAIN batch.args.rebalancing_weights :
        _rebalance_levies(batch.levies, batch.args.rebalancing_weights[k].weights,
                          batch.args.levy_denominators).outcome = "ok"

\* a tariff with the policy costs of the levies ls written into it
WithPolicyCosts(tariff, ls) ==
    IF tariff.fuel = "electricity"
    THEN [tariff EXCEPT
            !.pc_nil = sum([j \in DOMAIN ls |-> ls[j].electricity_fixed_rate]),
            !.pc = sum([j \in DOMAIN ls |-> ls[j].electricity_variable_rate])]
    ELSE [tariff EXCEPT
            !.pc_nil = sum([j \in DOMAIN ls |-> ls[j].gas_fixed_rate]),
            !.pc = sum([j \in DOMAIN ls |-> ls[j].gas_variable_rate])]

\* C14: process_rebalancing_scenario_bills, called with a Baseline and with
\* scenarios that all rebalance, returns a table; each scenario's electricity
\* and gas tariff is the one before the call with pc_nil and pc replaced by
\* the sums of the fixed and of the variable rates of the scenario's
\* rebalanced levies; each archetype's electricity and gas bill is
\* calculate_total_consumption(that fuel's consumption, vat=True) of that
\* tariff and 'total bill incl VAT' is their sum.
C14_ScenarioBills ==
    (BillsCalled /\ batch.args.include_baseline /\ ScenariosRebalance) =>
      /\ batch.result.outcome = "ok"
      /\ Len(batch.result.out) = 1 + Len(batch.args.rebalancing_weights)
      /\ \A k \in DOMAIN batch.args.rebalancing_weights :
           LET name == batch.args.rebalancing_weights[k].name
               elec == WithPolicyCosts(batch.elec_bills[name], BlockLevies(k + 1))
               gas == WithPolicyCosts(batch.gas_bills[name], BlockLevies(k + 1))
           IN  /\ batch.result.elec_bills[name] = elec
               /\ batch.result.gas_bills[name] = gas
               /\ \A x \in Range(batch.args.consumption_values_df) :
                    LET e == calculate_total_consumption(
                                 elec, RDiv(x.electricity,
                                            batch.args.consumption_scale_factor), TRUE)
                        g == calculate_total_consumption(
                                 gas, RDiv(x.gas, batch.args.consumption_scale_factor),
                                 TRUE)
                    IN  /\ Reported(k + 1, x.profile, "electricity bill incl VAT") = {e}
                        /\ Reported(k + 1, x.profile, "gas bill incl VAT") = {g}
                        /\ Reported(k + 1, x.profile, "total bill incl VAT")
                             = {RAdd(e, g)}

\* C14, what the procedure does: a call with a Baseline raises ValueError at the
\* first bill evaluation and leaves the tariffs as they were; a call without
\* one whose first scenario rebalances writes that scenario's policy costs
\* and raises ValueError at its bill evaluation; no table is returned.
C14_BillsRaise ==
    BillsCalled =>
      /\ batch.result.outcome # "ok" /\ batch.result.out = <<>>
      /\ batch.args.include_baseline =>
           /\ batch.result.outcome = "ValueError"
           /\ batch.result.elec_bills = batch.elec_bills
           /\ batch.result.gas_bills = batch.gas_bills
      /\ (~batch.args.include_baseline /\ ScenariosRebalance
          /\ batch.args.rebalancing_weights # <<>>) =>
           LET name == batch.args.rebalancing_weights[1].name
           IN  /\ batch.result.outcome = "ValueError"
               /\ batch.result.elec_bills =
                    [batch.elec_bills EXCEPT
                       ![name] = WithPolicyCosts(batch.elec_bills[name], BlockLevies(2))]
               /\ batch.result.gas_bills =
                    [batch.gas_bills EXCEPT
                       ![name] = WithPolicyCosts(batch.gas_bills[name], BlockLevies(2))]

\* a call with a Baseline and two scenarios that rebalance has raised
C14_Witness ==
    /\ BillsCalled /\ batch.args.include_baseline /\ ScenariosRebalance
    /\ Len(batch.args.rebalancing_weights) = 2
    /\ batch.result.outcome = "ValueError"

----------------------------------------------------------------------------
(* Properties of the factories (SpecFactory) *)

Made == factory.pc = "done"

\* C15: the RO, AAHEDC and GGL factories raise ValueError and construct no
\* levy when neither a revenue nor a denominator is supplied; when at least
\* one of the two is supplied they raise no such error.
C15_ConfigurationError ==
    (Made /\ factory.scheme \in {"ro", "aahedc", "ggl"}) =>
        IF factory.revenue = None /\ factory.denominator = None
        THEN factory.outcome = "ValueError" /\ factory.levy = <<>>
        ELSE factory.outcome # "ValueError"

C15_Witness ==
    /\ Made
    /\ factory.scheme = "ggl"
    /\ factory.revenue = None
    /\ factory.denominator = None
    /\ factory.outcome = "ValueError"
    /\ factory.levy = <<>>

\* the revenue a factory gives a levy when it takes none from its caller:
\* rate * denominator (RO, AAHEDC, GGL), or the scheme's published figure
RevenueWhenNotSupplied(scheme, levy, denominator) ==
    CASE scheme = "ro" -> RMul(levy.electricity_variable_rate, denominator)
      [] scheme = "aahedc" -> RMul(levy.electricity_variable_rate, denominator)
      [] scheme = "ggl" -> RMul(levy.gas_fixed_rate, denominator)
      [] scheme = "whd" -> levy.published.TargetSpendingForSchemeYear
      [] scheme = "eco" ->
           RAdd(RAdd(levy.published.AnnualisedCostECO4Gas,
                     levy.published.AnnualisedCostECO4Electricity),
                RAdd(levy.published.AnnualisedCostGBISGas,
                     levy.published.AnnualisedCostGBISElectricity))
      [] scheme = "fit" -> levy.published.InflatedLevelisationFund

\* C16: a supplied revenue (0 included, with or without a denominator) is the
\* constructed levy's revenue; only when none is supplied is the revenue
\* rate * denominator (RO, AAHEDC, GGL) or the published figure (WHD, ECO, FIT).
C16_SuppliedRevenueKept ==
    (Made /\ factory.outcome = "ok") =>
        IF factory.revenue # None
        THEN factory.levy[1].revenue = factory.revenue
        ELSE factory.levy[1].revenue =
                 RevenueWhenNotSupplied(factory.scheme, factory.levy[1],
                                        factory.denominator)

\* C16, what the factories do: a revenue of 0 is treated like no revenue; it
\* is replaced by rate * denominator or the published figure, and the call
\* ends in TypeError when the denominator it needs is None.
C16_ZeroRevenueReplaced ==
    /\ (Made /\ factory.outcome = "ok") =>
           IF Truthy(factory.revenue)
           THEN factory.levy[1].revenue = factory.revenue
           ELSE factory.levy[1].revenue =
                    RevenueWhenNotSupplied(factory.scheme, factory.levy[1],
                                           factory.denominator)
    /\ (/\ Made
        /\ factory.scheme \in {"ro", "aahedc", "ggl"}
        /\ factory.revenue = Z(0)
        /\ factory.denominator = None) => factory.outcome \in {"TypeError", "IndexError"}

C16_Witness ==
    /\ Made
    /\ factory.scheme = "ro"
    /\ factory.revenue = Z(0)
    /\ factory.denominator = Z(16)
    /\ factory.outcome = "ok"
    /\ factory.levy[1].revenue = RMul(factory.levy[1].electricity_variable_rate, Z(16))
    /\ factory.levy[1].revenue # Z(0)

\* the ECO rate of one fuel as the three supported combinations of present
\* fields give it; None when no combination matches
EcoRateOrNone(cost, gbis, deflator, deflator_gbis, share, volume) ==
    LET with(c, d) == RMul(c, RAdd(Z(1), RDiv(d, Z(100))))
    IN  IF ~isna(cost) /\ ~isna(gbis)
        THEN RDiv(RAdd(with(cost, deflator), with(gbis, deflator_gbis)), volume)
        ELSE IF ~isna(cost) /\ isna(gbis) /\ isna(share)
        THEN RDiv(with(cost, deflator), volume)
        ELSE IF ~isna(cost) /\ isna(gbis) /\ ~isna(share)
        THEN RDiv(with(RMul(cost, share), IF isna(deflator) THEN Z(0) ELSE deflator),
                  volume)
        ELSE None

EcoRateGas(row) ==
    EcoRateOrNone(row.AnnualisedCostECO4Gas, row.AnnualisedCostGBISGas,
                  row.GDPDeflatorToCurrentPricesECO4,
                  row.GDPDeflatorToCurrentPricesGBIS,
                  row.FullyObligatedShareOfObligatedSupplierSupplyGas,
                  row.ObligatedSupplierVolumeGas)

EcoRateElectricity(row) ==
    EcoRateOrNone(row.AnnualisedCostECO4Electricity,
                  row.AnnualisedCostGBISElectricity,
                  row.GDPDeflatorToCurrentPricesECO4,
                  row.GDPDeflatorToCurrentPricesGBIS,
                  row.FullyObligatedShareOfObligatedSupplierSupplyElectricity,
                  row.ObligatedSupplierVolumeElectricity)

\* C17: per fuel, the ECO rate is the inflated sum of the ECO4 and GBIS costs
\* over the volume when both costs are present, the inflated ECO4 cost over
\* the volume when only ECO4 is present and the share is absent, the inflated
\* ECO4 cost times the share over the volume (deflator 0 if absent) when ECO4
\* and the share are present without GBIS; in every other combination the
\* calculation raises ValueError and no levy is built.
C17_EcoBranches ==
    /\ (Made /\ factory.scheme = "eco" /\ factory.outcome = "ok") =>
           /\ EcoRateGas(factory.levy[1].published) # None
           /\ EcoRateElectricity(factory.levy[1].published) # None
           /\ factory.levy[1].gas_variable_rate =
                  EcoRateGas(factory.levy[1].published)
           /\ factory.levy[1].electricity_variable_rate =
                  EcoRateElectricity(factory.levy[1].published)
    /\ (/\ Made
        /\ factory.scheme = "eco"
        /\ Len(factory.df) = 1
        /\ ~isna(factory.df[1].AnnualisedCostECO4Gas)) =>
           IF EcoRateGas(factory.df[1]) = None
              \/ EcoRateElectricity(factory.df[1]) = None
           THEN factory.outcome = "ValueError" /\ factory.levy = <<>>
           ELSE factory.outcome = "ok" /\ factory.levy[1].published = factory.df[1]
    /\ \A cost \in {NaN, Z(10)}, gbis \in {NaN, Z(6)}, share \in {NaN, Q(1, 2)},
          deflator \in {NaN, Z(20)} :
           IF eco_branch(cost, gbis, share) = 0
           THEN EcoRateOrNone(cost, gbis, deflator, Z(10), share, Z(5)) = None
           ELSE calculate_eco_rate(cost, gbis, deflator, Z(10), share, Z(5)) =
                    EcoRateOrNone(cost, gbis, deflator, Z(10), share, Z(5))

\* the second branch on electricity and the first on gas, in one call
C17_Witness ==
    /\ Made
    /\ factory.scheme = "eco"
    /\ factory.outcome = "ok"
    /\ factory.levy[1].published.AnnualisedCostECO4Electricity = Z(10)
    /\ isna(factory.levy[1].published.AnnualisedCostGBISElectricity)
    /\ isna(factory.levy[1].published.FullyObligatedShareOfObligatedSupplierSupplyElectricity)
    /\ factory.levy[1].published.GDPDeflatorToCurrentPricesECO4 = Z(20)
    /\ factory.levy[1].electricity_variable_rate = Z(6)
    /\ ~isna(factory.levy[1].published.AnnualisedCostGBISGas)
    /\ factory.levy[1].gas_variable_rate = Q(7, 2)

\* the WHD rate of a published row
WhdRate(row) ==
    IF isna(row.CoreSpending)
    THEN RDiv(row.TargetSpendingForSchemeYear, row.ObligatedSuppliersCustomerBase)
    ELSE RDiv(RAdd(RMul(row.CoreSpending, row.CompulsorySupplierFractionOfCoreGroup),
                   row.NoncoreSpending),
              row.ObligatedSuppliersCustomerBase)

\* C18: a levy built by the WHD factory has both fixed rates equal to target
\* spending / customer base when core spending is absent and to
\* (core * fraction + noncore) / customer base otherwise, variable rates 0,
\* electricity and gas weights 1/2, both fuels fully fixed, and the target
\* spending as revenue when none is supplied (500,000,000 over 25,000,000
\* customers gives 20).
C18_WhdFactory ==
    (Made /\ factory.scheme = "whd" /\ factory.outcome = "ok") =>
        LET levy == factory.levy[1]
        IN  /\ levy.electricity_fixed_rate = WhdRate(levy.published)
            /\ levy.gas_fixed_rate = WhdRate(levy.published)
            /\ levy.electricity_variable_rate = Z(0)
            /\ levy.gas_variable_rate = Z(0)
            /\ levy.electricity_weight = Q(1, 2)
            /\ levy.gas_weight = Q(1, 2)
            /\ levy.tax_weight = Z(0)
            /\ levy.electricity_fixed_weight = Z(1)
            /\ levy.gas_fixed_weight = Z(1)
            /\ levy.electricity_variable_weight = Z(0)
            /\ levy.gas_variable_weight = Z(0)
            /\ factory.revenue = None =>
                   levy.revenue = levy.published.TargetSpendingForSchemeYear
            /\ (/\ levy.published.TargetSpendingForSchemeYear = Z(500000000)
                /\ isna(levy.published.CoreSpending)
                /\ levy.published.ObligatedSuppliersCustomerBase = Z(25000000)) =>
                   levy.electricity_fixed_rate = Z(20) /\ levy.gas_fixed_rate = Z(20)

C18_Witness ==
    /\ Made
    /\ factory.scheme = "whd"
    /\ factory.outcome = "ok"
    /\ factory.revenue = None
    /\ factory.levy[1].published.TargetSpendingForSchemeYear = Z(500000000)
    /\ isna(factory.levy[1].published.CoreSpending)
    /\ factory.levy[1].electricity_fixed_rate = Z(20)
    /\ factory.levy[1].gas_fixed_rate = Z(20)
    /\ factory.levy[1].revenue = Z(500000000)

\* C19: a levy built by the RO factory has electricity_variable_rate equal to
\* obligation level * scheme-year buy-out price when that price is present
\* and obligation level * previous-year buy-out price when it is absent; the
\* other three rates are 0 and the levy is all electricity, all variable.
C19_RoFactory ==
    (Made /\ factory.scheme = "ro" /\ factory.outcome = "ok") =>
        LET levy == factory.levy[1]
            row == factory.levy[1].published
        IN  /\ ~isna(row.BuyOutPriceSchemeYear) =>
                   levy.electricity_variable_rate =
                       RMul(row.ObligationLevel, row.BuyOutPriceSchemeYear)
            /\ isna(row.BuyOutPriceSchemeYear) =>
                   levy.electricity_variable_rate =
                       RMul(row.ObligationLevel, row.BuyOutPricePreviousYear)
            /\ levy.electricity_fixed_rate = Z(0)
            /\ levy.gas_variable_rate = Z(0)
            /\ levy.gas_fixed_rate = Z(0)
            /\ levy.electricity_weight = Z(1)
            /\ levy.gas_weight = Z(0)
            /\ levy.tax_weight = Z(0)
            /\ levy.electricity_variable_weight = Z(1)
            /\ levy.electricity_fixed_weight = Z(0)
            /\ levy.gas_variable_weight = Z(0)
            /\ levy.gas_fixed_weight = Z(0)

\* both buy-out prices are published and the scheme-year one is used
C19_Witness ==
    /\ Made
    /\ factory.scheme = "ro"
    /\ factory.outcome = "ok"
    /\ factory.levy[1].published.ObligationLevel = Q(1, 4)
    /\ factory.levy[1].published.BuyOutPriceSchemeYear = Z(4)
    /\ factory.levy[1].published.BuyOutPricePreviousYear = Z(2)
    /\ factory.levy[1].electricity_variable_rate = Z(1)

----------------------------------------------------------------------------
(* Properties of a rebalance that changes nothing (Spec) *)

\* the call's weights are the levy's current split
SameSplit(levy, a) ==
    /\ a.new_electricity_weight = levy.electricity_weight
    /\ a.new_gas_weight = levy.gas_weight
    /\ a.new_tax_weight = levy.tax_weight
    /\ a.new_variable_weight_elec = levy.electricity_variable_weight
    /\ a.new_fixed_weight_elec = levy.electricity_fixed_weight
    /\ a.new_variable_weight_gas = levy.gas_variable_weight
    /\ a.new_fixed_weight_gas = levy.gas_fixed_weight

\* revenue * fuel weight * basis weight / denominator
RateFrom(revenue, fuel_weight, basis_weight, denominator) ==
    RDiv(RMul(RMul(revenue, fuel_weight), basis_weight), denominator)

\* the call's denominators are consistent with the levy's current rates
ConsistentDenominators(levy, a) ==
    /\ levy.electricity_variable_rate =
           RateFrom(levy.revenue, levy.electricity_weight,
                    levy.electricity_variable_weight, a.supply_elec)
    /\ levy.electricity_fixed_rate =
           RateFrom(levy.revenue, levy.electricity_weight,
                    levy.electricity_fixed_weight, a.customers_elec)
    /\ levy.gas_variable_rate =
           RateFrom(levy.revenue, levy.gas_weight,
                    levy.gas_variable_weight, a.supply_gas)
    /\ levy.gas_fixed_rate =
           RateFrom(levy.revenue, levy.gas_weight,
                    levy.gas_fixed_weight, a.customers_gas)

Rates(levy) ==
    <<levy.electricity_variable_rate, levy.electricity_fixed_rate,
      levy.gas_variable_rate, levy.gas_fixed_rate>>

\* C20: a rebalance_levy call whose weights are the levy's current split and
\* whose denominators are consistent with its current rates succeeds and
\* yields a levy (the object itself in place, the returned copy otherwise)
\* with the four rates the levy had before the call.
C20_NoOpRebalance ==
    [][(/\ last'.op = "rebalance"
        /\ last'.target \in DOMAIN levies
        /\ SameSplit(levies[last'.target], last'.args)
        /\ ConsistentDenominators(levies[last'.target], last'.args))
       => /\ last'.outcome = "ok"
          /\ Rates(levies'[IF last'.inplace THEN last'.target ELSE last'.ret]) =
                 Rates(levies[last'.target])]_vars

\* a RO levy split over electricity, gas and taxation, rebalanced to a copy
\* with its own split and with the denominators that gave it its rates
C20_Witness ==
    /\ last.op = "rebalance"
    /\ last.outcome = "ok"
    /\ ~last.inplace
    /\ levies[last.target].short_name = "ro"
    /\ levies[last.target].electricity_weight = Q(1, 4)
    /\ levies[last.target].tax_weight = Q(1, 4)
    /\ levies[last.target].gas_fixed_rate # Z(0)
    /\ SameSplit(levies[last.target], last.args)
    /\ ConsistentDenominators(levies[last.target], last.args)
    /\ Rates(levies[last.ret]) = Rates(levies[last.target])

----------------------------------------------------------------------------
(* Properties of rebalance_levy with a zero denominator (SpecDivisor) *)

----------------------------------------------------------------------------
(* Properties of the batch procedures: Baseline and failures (SpecBatch) *)

ScenariosCalled == batch.op = "process_rebalancing_scenarios"

\* the same call made with include_baseline=True
WithBaseline ==
    process_rebalancing_scenarios(
        batch.levies, batch.args.rebalancing_weights, batch.args.levy_denominators,
        batch.args.consumption_values_df, batch.args.summaries,
        batch.args.consumption_scale_factor, TRUE)

\* C22: the Baseline is optional.  A process_rebalancing_scenarios call that
\* succeeds with include_baseline=True returns the 'Baseline' rows followed by
\* the rows of every scenario; made with include_baseline=False it succeeds
\* too and returns the rows of every scenario without the 'Baseline' rows.
C22_BaselineOptional ==
    (ScenariosCalled /\ WithBaseline.outcome = "ok") =>
        /\ batch.result.outcome = "ok"
        /\ IF batch.args.include_baseline
           THEN /\ Len(batch.result.out) = 1 + Len(batch.args.rebalancing_weights)
                /\ \A r \in batch.result.out[1] : r.scenario = "Baseline"
                /\ batch.result.out = WithBaseline.out
           ELSE /\ Len(batch.result.out) = Len(batch.args.rebalancing_weights)
                /\ batch.result.out = Tail(WithBaseline.out)

\* C22, what the procedure does: with include_baseline=False every call ends
\* in an error and returns no table; a call that would succeed with the
\* Baseline ends in UnboundLocalError at the return statement.
C22_BaselineRequired ==
    (ScenariosCalled /\ ~batch.args.include_baseline) =>
        /\ batch.result.outcome # "ok"
        /\ batch.result.out = <<>>
        /\ WithBaseline.outcome = "ok" =>
               batch.result.outcome = "UnboundLocalError"

\* two scenarios that rebalance, valid summaries, no Baseline asked for
C22_Witness ==
    /\ ScenariosCalled
    /\ ~batch.args.include_baseline
    /\ Len(batch.args.rebalancing_weights) = 2
    /\ WithBaseline.outcome = "ok"
    /\ Len(WithBaseline.out) = 3
    /\ batch.result.outcome = "UnboundLocalError"
    /\ batch.result.out = <<>>

\* the error with which rebalancing the i-th levy under the k-th scenario
\* ends, or "ok"
LevyError(i, k) ==
    LET levy == batch.levies[i]
        weights == batch.args.rebalancing_weights[k].weights
        denominators == batch.args.levy_denominators
    IN  IF levy.short_name \notin DOMAIN weights THEN "TypeError"
        ELSE IF levy.short_name \notin DOMAIN denominators THEN "KeyError"
        ELSE IF Z(0) \in {denominators[levy.short_name][j] : j \in 1..4}
        THEN "ZeroDivisionError"
        ELSE IF ~RevenueCheck(levy, ArgsOf(weights[levy.short_name],
                                           denominators[levy.short_name]))
        THEN "ValueError"
        ELSE "ok"

Failing(k) == {i \in DOMAIN batch.levies : LevyError(i, k) # "ok"}

FailingScenarios == {k \in DOMAIN batch.args.rebalancing_weights : Failing(k) # {}}

\* the least member of a set of positions
FirstOf(S) == CHOOSE k \in S : \A j \in S : k <= j

FirstFailingScenario == FirstOf(FailingScenarios)

\* the error of the first levy that fails in the k-th scenario
ErrorIn(k) == LevyError(FirstOf(Failing(k)), k)

\* the error of the first levy that fails in the first failing scenario
FirstError == CHOOSE e \in {ErrorIn(k) : k \in {FirstFailingScenario}} : TRUE

SummariesAccepted ==
    \A i \in DOMAIN batch.args.summaries :
      batch.args.summaries[i] \in {"fixed", "variable", "total"}

\* the call comes to the rebalancing of the first failing scenario: nothing
\* before it has raised
FailureReached ==
    /\ ScenariosCalled \/ BillsCalled
    /\ FailingScenarios # {}
    /\ \/ ScenariosCalled /\ SummariesAccepted
       \/ FirstFailingScenario = 1 /\ ~batch.args.include_baseline

\* C23: when the rebalancing of a levy fails in a scenario of a batch (the
\* conservation check, a division by 0, or a short_name missing from the
\* scenario's weights or from the denominators), the procedure ends in that
\* error, returns no table, not even the rows of the scenarios before, and
\* leaves the input levies and tariffs as they were; and no call with a
\* failing scenario returns a table
C23_FailFast ==
    /\ FailureReached =>
         /\ batch.result.outcome = FirstError
         /\ batch.result.out = <<>>
         /\ batch.result.levies = batch.levies
         /\ batch.result.elec_bills = batch.elec_bills
         /\ batch.result.gas_bills = batch.gas_bills
    /\ (ScenariosCalled \/ BillsCalled) /\ FailingScenarios # {} =>
         /\ batch.result.outcome # "ok"
         /\ batch.result.out = <<>>

\* a batch whose second scenario fails after a first one that was rebalanced
\* and costed
C23_Witness ==
    /\ ScenariosCalled
    /\ FailureReached
    /\ FirstFailingScenario = 2
    /\ batch.result.outcome = "ValueError"
    /\ batch.result.out = <<>>

----------------------------------------------------------------------------
(* Properties of the rebate overlay (SpecSubsidy) *)

SubsidyDone == subsidy.pc = "done" /\ subsidy.outcome = "ok"

\* the eligible households of an archetype under the call's criteria
EligibleHouseholds(p) ==
    subsidy.eligibility_dataframe[p][eligibility_dict[subsidy.eligibility_criteria]]

IneligibleHouseholds(p) == RSub(ArchetypeSize(p), EligibleHouseholds(p))

TotalEligible ==
    Sum3(EligibleHouseholds("A1"), EligibleHouseholds("B4"), EligibleHouseholds("C7"))

TotalIneligible ==
    Sum3(IneligibleHouseholds("A1"), IneligibleHouseholds("B4"),
         IneligibleHouseholds("C7"))

\* the scenario bill of the archetype of a row of the returned table
ScenarioBillOf(row) == TotalBill(row.AnnualConsumptionProfile, subsidy.scenario_name)

\* what the ineligible households of the table pay on top of their scenario
\* bills
SurchargeCollected ==
    sum([i \in DOMAIN subsidy.out |->
           RMul(subsidy.out[i].NumberOfIneligibleHouseholds,
                IF IsNum(subsidy.out[i].IneligibleHouseholdBill)
                THEN RSub(subsidy.out[i].IneligibleHouseholdBill,
                          ScenarioBillOf(subsidy.out[i]))
                ELSE NaN)])

RebatePaid == RMul(subsidy.rebate, TotalEligible)

EligibleBills ==
    \A i \in DOMAIN subsidy.out :
      subsidy.out[i].EligibleHouseholdBill
        = RSub(ScenarioBillOf(subsidy.out[i]), subsidy.rebate)

UnchargedBills ==
    \A i \in DOMAIN subsidy.out :
      subsidy.out[i].IneligibleHouseholdBill = ScenarioBillOf(subsidy.out[i])

\* C24 as stated: every eligible bill is the scenario bill minus the rebate;
\* when the ineligible households pay, every ineligible bill is a number and
\* the surcharge collected over the ineligible households equals the rebate
\* paid over the eligible ones; otherwise the ineligible bill is the scenario
\* bill
C24_RebateBalanced ==
    SubsidyDone =>
      /\ EligibleBills
      /\ subsidy.ineligible_households_pay =>
           /\ \A i \in DOMAIN subsidy.out :
                IsNum(subsidy.out[i].IneligibleHouseholdBill)
           /\ SurchargeCollected = RebatePaid
      /\ ~subsidy.ineligible_households_pay => UnchargedBills

\* C24: every eligible bill is the scenario bill minus the rebate; when the
\* ineligible households pay and there is at least one of them, every
\* ineligible bill is the scenario bill plus the rebate fund divided by their
\* number, and the surcharge collected equals the rebate paid; when there is
\* none, the bills are infinite (NaN for an empty fund) and nothing is
\* collected; when they do not pay, the ineligible bill is the scenario bill
C24_RebateOverlay ==
    SubsidyDone =>
      /\ EligibleBills
      /\ subsidy.ineligible_households_pay /\ TotalIneligible # Z(0) =>
           /\ \A i \in DOMAIN subsidy.out :
                subsidy.out[i].IneligibleHouseholdBill
                  = RAdd(ScenarioBillOf(subsidy.out[i]),
                         RDiv(RebatePaid, TotalIneligible))
           /\ SurchargeCollected = RebatePaid
      /\ subsidy.ineligible_households_pay /\ TotalIneligible = Z(0) =>
           \A i \in DOMAIN subsidy.out :
             /\ subsidy.out[i].IneligibleHouseholdBill
                  = IF RGt(RebatePaid, Z(0)) THEN Inf ELSE NaN
             /\ subsidy.out[i].NumberOfIneligibleHouseholds = Z(0)
      /\ ~subsidy.ineligible_households_pay => UnchargedBills

\* a rebate of 30 charged to the 17 ineligible households of three archetypes
C24_Witness ==
    /\ SubsidyDone
    /\ subsidy.ineligible_households_pay
    /\ subsidy.rebate = Z(30)
    /\ subsidy.eligibility_criteria = "ECO"
    /\ Len(subsidy.out) = 3
    /\ \A i \in DOMAIN subsidy.out :
         subsidy.out[i].IneligibleHouseholdBill
           = RAdd(ScenarioBillOf(subsidy.out[i]), Q(90, 17))

\* the archetypes of the call's table in its order, "Typical" left out
TableArchetypes == SelectSeq(subsidy.table, LAMBDA p : p # "Typical")

\* C30 as stated: on every row the CurrentBaselineBill is the Baseline total
\* bill of the row's own archetype, and each bill change is the difference
\* between two bills of that archetype, whatever the order of the table
C30_OwnBaselineBill ==
    SubsidyDone =>
      \A i \in DOMAIN subsidy.out :
        /\ subsidy.out[i].CurrentBaselineBill
             = TotalBill(subsidy.out[i].AnnualConsumptionProfile, "Baseline")
        /\ subsidy.out[i].EligibleHouseholdBillChangeFromCurrentBill
             = RSub(subsidy.out[i].EligibleHouseholdBill,
                    TotalBill(subsidy.out[i].AnnualConsumptionProfile, "Baseline"))

\* C30, the program: the rows come in the sorted order of the archetype
\* names, and the CurrentBaselineBill of the i-th row is the Baseline total
\* bill of the i-th archetype of the table as given; it is the row's own
\* archetype exactly when the table lists the archetypes in sorted order
C30_BaselineBillByPosition ==
    SubsidyDone =>
      /\ Len(subsidy.out) = Len(TableArchetypes)
      /\ \A i \in DOMAIN subsidy.out :
           /\ subsidy.out[i].CurrentBaselineBill
                = TotalBill(TableArchetypes[i], "Baseline")
           /\ subsidy.out[i].EligibleHouseholdBillChangeFromCurrentBill
                = RSub(subsidy.out[i].EligibleHouseholdBill,
                       TotalBill(TableArchetypes[i], "Baseline"))
           /\ \A j \in DOMAIN subsidy.out :
                i < j => \E a, b \in DOMAIN SortedProfiles :
                           /\ a < b
                           /\ SortedProfiles[a] = subsidy.out[i].AnnualConsumptionProfile
                           /\ SortedProfiles[b] = subsidy.out[j].AnnualConsumptionProfile

\* a table that lists B4 before A1: the row of A1 carries the baseline bill
\* of B4
C30_Witness ==
    /\ SubsidyDone
    /\ subsidy.table = <<"B4", "A1", "C7">>
    /\ subsidy.out[1].AnnualConsumptionProfile = "A1"
    /\ subsidy.out[1].CurrentBaselineBill = TotalBill("B4", "Baseline")
    /\ subsidy.out[1].CurrentBaselineBill # TotalBill("A1", "Baseline")

----------------------------------------------------------------------------
(* Properties of the factories: the selected row (SpecFactory) *)

\* the defining field of the scheme is present on a row
FieldPresent(scheme, row) ==
    IF scheme = "aahedc"
    THEN ~isna(row.TariffCurrentYear) \/ ~isna(row.TariffPreviousYear)
    ELSE ~isna(row[DefiningField(scheme)])

\* C25: a factory builds its levy from a row of the table that has the
\* scheme's defining field and whose date (UpdateDate; for FIT the start of
\* ChargeRestrictionPeriod2) is the greatest among the rows that have it: a
\* row without the field is never selected, even the newest, and no older
\* row is selected when a newer one has the field
C25_LatestRowWithField ==
    Made /\ factory.outcome = "ok" =>
      \E i \in DOMAIN factory.df :
        /\ factory.levy[1].published = factory.df[i]
        /\ FieldPresent(factory.scheme, factory.df[i])
        /\ \A j \in DOMAIN factory.df :
             FieldPresent(factory.scheme, factory.df[j])
               => factory.df[j][DateField(factory.scheme)]
                    <= factory.df[i][DateField(factory.scheme)]

\* a table that starts with its newest row, which lacks the field, and ends
\* with its oldest: the levy is built from the row in between
C25_Witness ==
    /\ Made
    /\ factory.outcome = "ok"
    /\ Len(factory.df) = 3
    /\ factory.df[1][DateField(factory.scheme)] = 3
    /\ ~FieldPresent(factory.scheme, factory.df[1])
    /\ factory.df[3][DateField(factory.scheme)] = 1
    /\ factory.levy[1].published = factory.df[2]
    /\ factory.scheme = "fit"

----------------------------------------------------------------------------
(* Properties of the ECO factory: default revenue and the GBIS cost         *)
(* (SpecFactory)                                                            *)

\* an ECO call that built a levy: both fuel rates were derived
EcoMade == Made /\ factory.scheme = "eco" /\ factory.outcome = "ok"

EcoRow == factory.levy[1].published

GbisAbsent ==
    isna(EcoRow.AnnualisedCostGBISGas) \/ isna(EcoRow.AnnualisedCostGBISElectricity)

\* C26 as stated: without a supplied revenue the ECO levy's revenue is the
\* sum of the four annualised cost fields, a defined number for every row
\* from which both rates are derived
C26_DefaultRevenueDefined ==
    EcoMade /\ factory.revenue = None =>
      /\ factory.levy[1].revenue
           = Sum3(RAdd(EcoRow.AnnualisedCostECO4Gas,
                       EcoRow.AnnualisedCostECO4Electricity),
                  EcoRow.AnnualisedCostGBISGas, EcoRow.AnnualisedCostGBISElectricity)
      /\ IsNum(factory.levy[1].revenue)

\* C26, the program: without a supplied revenue the ECO levy's revenue is the
\* sum of the two ECO4 costs and the two GBIS costs when both GBIS costs are
\* present, and NaN when a GBIS cost is absent, as it is on every row whose
\* rate comes from the second or third branch
C26_DefaultRevenueNaN ==
    EcoMade /\ factory.revenue = None =>
      /\ ~GbisAbsent =>
           factory.levy[1].revenue
             = RAdd(RAdd(EcoRow.AnnualisedCostECO4Gas,
                         EcoRow.AnnualisedCostECO4Electricity),
                    RAdd(EcoRow.AnnualisedCostGBISGas,
                         EcoRow.AnnualisedCostGBISElectricity))
      /\ GbisAbsent => factory.levy[1].revenue = NaN

\* a row without GBIS costs: both rates are numbers, the revenue is NaN
C26_Witness ==
    /\ EcoMade
    /\ factory.revenue = None
    /\ isna(EcoRow.AnnualisedCostGBISGas)
    /\ isna(EcoRow.AnnualisedCostGBISElectricity)
    /\ IsNum(factory.levy[1].gas_variable_rate)
    /\ IsNum(factory.levy[1].electricity_variable_rate)
    /\ factory.levy[1].revenue = NaN

\* cost * (1 + deflator / 100) / volume
InflatedOver(cost, deflator, volume) ==
    RDiv(RMul(cost, RAdd(Z(1), RDiv(deflator, Z(100)))), volume)

\* C27 as stated: with the ECO4 cost present and the fully-obligated share
\* absent the second branch gives the rate, the GBIS cost left out even when
\* it is present
C27_GbisLeftOut ==
    EcoMade
    /\ ~isna(EcoRow.AnnualisedCostECO4Gas)
    /\ isna(EcoRow.FullyObligatedShareOfObligatedSupplierSupplyGas)
    /\ ~isna(EcoRow.AnnualisedCostGBISGas) =>
      factory.levy[1].gas_variable_rate
        = InflatedOver(EcoRow.AnnualisedCostECO4Gas,
                       EcoRow.GDPDeflatorToCurrentPricesECO4,
                       EcoRow.ObligatedSupplierVolumeGas)

\* C27: a present GBIS cost is never left out: whenever the ECO4 and the
\* GBIS cost of a fuel are both present, with or without the share, the rate
\* is the sum of the two inflated costs over the volume (the first branch);
\* the ECO4 cost alone gives the rate only when the GBIS cost is absent
C27_GbisCounted ==
    EcoMade =>
      /\ ~isna(EcoRow.AnnualisedCostGBISGas) =>
           factory.levy[1].gas_variable_rate
             = RAdd(InflatedOver(EcoRow.AnnualisedCostECO4Gas,
                                 EcoRow.GDPDeflatorToCurrentPricesECO4,
                                 EcoRow.ObligatedSupplierVolumeGas),
                    InflatedOver(EcoRow.AnnualisedCostGBISGas,
                                 EcoRow.GDPDeflatorToCurrentPricesGBIS,
                                 EcoRow.ObligatedSupplierVolumeGas))
      /\ ~isna(EcoRow.AnnualisedCostGBISElectricity) =>
           factory.levy[1].electricity_variable_rate
             = RAdd(InflatedOver(EcoRow.AnnualisedCostECO4Electricity,
                                 EcoRow.GDPDeflatorToCurrentPricesECO4,
                                 EcoRow.ObligatedSupplierVolumeElectricity),
                    InflatedOver(EcoRow.AnnualisedCostGBISElectricity,
                                 EcoRow.GDPDeflatorToCurrentPricesGBIS,
                                 EcoRow.ObligatedSupplierVolumeElectricity))

\* ECO4 cost 10 and GBIS cost 5 on gas, no share, deflators 20 and 10, volume
\* 5: the rate is (12 + 5.5) / 5, not 12 / 5
C27_Witness ==
    /\ EcoMade
    /\ EcoRow.AnnualisedCostECO4Gas = Z(10)
    /\ EcoRow.AnnualisedCostGBISGas = Z(5)
    /\ isna(EcoRow.FullyObligatedShareOfObligatedSupplierSupplyGas)
    /\ EcoRow.GDPDeflatorToCurrentPricesECO4 = Z(20)
    /\ factory.levy[1].gas_variable_rate = Q(7, 2)
    /\ factory.levy[1].gas_variable_rate # Q(12, 5)

----------------------------------------------------------------------------
(* Two successive rebalance_levy calls on a levy, and the second call alone *)
(* on an equal levy.                                                        *)

\* the levies the factories build from the published tables
TwiceLevies == UNION {Range(levy_list) : levy_list \in InputLevyLists}

\* the arguments of a call: weights with one of two sets of denominators
TwiceArgs == {ArgsOf(w, d) : w \in WeightSets,
                             d \in {<<Z(2), Z(4), Z(5), Z(10)>>,
                                    <<Z(3), Z(3), Z(1), Z(2)>>}}

\* the levy a call leaves the script with: the object itself after a call in
\* place or a failed call, the returned copy otherwise
LevyAfter(r) == IF r.ret = <<>> THEN r.self ELSE r.ret[1]

InitTwice ==
    /\ levies = <<>>
    /\ last = NoLast
    /\ tariffs = NoTariffs
    /\ bill = NoBill
    /\ batch = NoBatch
    /\ factory = NoFactory
    /\ subsidy = NoSubsidy
    /\ \E levy \in TwiceLevies, a \in TwiceArgs, b \in TwiceArgs, inplace \in BOOLEAN :
         call = [pc |-> "ready", alone_pc |-> "ready", levy |-> levy, a |-> a, b |-> b,
                 inplace |-> inplace,
                 first |-> <<>>, second |-> <<>>, alone |-> <<>>]

\* levy.rebalance_levy(**a, inplace=inplace)
RebalanceFirst ==
    /\ call.pc = "ready"
    /\ \E r \in {rebalance_levy(call.levy, call.a, call.inplace)} :
         call' = [call EXCEPT !.pc = "first",
                              !.first = <<[outcome |-> r.outcome, levy |-> LevyAfter(r)]>>]
    /\ UNCHANGED <<levies, last, tariffs, bill, batch, factory, subsidy>>

\* the same with b, on the levy the first call left
RebalanceSecond ==
    /\ call.pc = "first"
    /\ \E r \in {rebalance_levy(call.first[1].levy, call.b, call.inplace)} :
         call' = [call EXCEPT !.pc = "second",
                              !.second = <<[outcome |-> r.outcome, levy |-> LevyAfter(r)]>>]
    /\ UNCHANGED <<levies, last, tariffs, bill, batch, factory, subsidy>>

\* rebalance_levy(**b, inplace=inplace) on another levy built from the same
\* table
RebalanceAlone ==
    /\ call.alone_pc = "ready"
    /\ \E r \in {rebalance_levy(call.levy, call.b, call.inplace)} :
         call' = [call EXCEPT !.alone_pc = "done",
                              !.alone = <<[outcome |-> r.outcome, levy |-> LevyAfter(r)]>>]
    /\ UNCHANGED <<levies, last, tariffs, bill, batch, factory, subsidy>>

NextTwice == RebalanceFirst \/ RebalanceSecond \/ RebalanceAlone

SpecTwice == InitTwice /\ [][NextTwice]_vars

----------------------------------------------------------------------------
(* Properties of successive rebalances (SpecTwice) *)

\* a levy with the revenue and the published fields of l and with other
\* weights, rates and general_taxation
OtherHistory(l, v) ==
    [l EXCEPT
        !.electricity_weight = v, !.gas_weight = v, !.tax_weight = v,
        !.electricity_variable_weight = v, !.electricity_fixed_weight = v,
        !.gas_variable_weight = v, !.gas_fixed_weight = v,
        !.electricity_variable_rate = v, !.electricity_fixed_rate = v,
        !.gas_variable_rate = v, !.gas_fixed_rate = v, !.general_taxation = v]

\* revenue * fuel weight * basis weight / denominator
ShareOver(revenue, fuel_weight, basis_weight, denominator) ==
    RDiv(RMul(RMul(revenue, fuel_weight), basis_weight), denominator)

\* the weights, rates and general_taxation of l are those that the revenue
\* and the arguments a give
GivenBy(l, revenue, a) ==
    /\ l.electricity_weight = a.new_electricity_weight
    /\ l.gas_weight = a.new_gas_weight
    /\ l.tax_weight = a.new_tax_weight
    /\ l.electricity_variable_weight = a.new_variable_weight_elec
    /\ l.electricity_fixed_weight = a.new_fixed_weight_elec
    /\ l.gas_variable_weight = a.new_variable_weight_gas
    /\ l.gas_fixed_weight = a.new_fixed_weight_gas
    /\ l.electricity_variable_rate
         = ShareOver(revenue, a.new_electricity_weight, a.new_variable_weight_elec,
                     a.supply_elec)
    /\ l.electricity_fixed_rate
         = ShareOver(revenue, a.new_electricity_weight, a.new_fixed_weight_elec,
                     a.customers_elec)
    /\ l.gas_variable_rate
         = ShareOver(revenue, a.new_gas_weight, a.new_variable_weight_gas, a.supply_gas)
    /\ l.gas_fixed_rate
         = ShareOver(revenue, a.new_gas_weight, a.new_fixed_weight_gas, a.customers_gas)
    /\ l.general_taxation = RMul(revenue, a.new_tax_weight)

\* C28: rebalance_levy is history-independent.  The levy a successful call
\* produces has the weights, rates and general_taxation that the levy's
\* revenue and the call's arguments give, and the call has the same outcome
\* on a levy of that revenue with any other weights and rates; so rebalancing
\* with a and then with b has the outcome of rebalancing the original with b
\* alone and, when it succeeds, leaves the same levy; and rebalancing twice
\* with the same arguments leaves the levy of the first call
C28_HistoryIndependent ==
    /\ call.pc \in {"first", "second"} =>
         /\ call.first[1].outcome = "ok"
              => GivenBy(call.first[1].levy, call.levy.revenue, call.a)
         /\ \A v \in {Z(0), Z(7)} :
              rebalance_levy(OtherHistory(call.levy, v), call.a, FALSE).outcome
                = call.first[1].outcome
    /\ call.pc = "second" /\ call.second[1].outcome = "ok" =>
         GivenBy(call.second[1].levy, call.levy.revenue, call.b)
    /\ call.pc = "second" /\ call.alone_pc = "done" =>
         /\ call.second[1].outcome = call.alone[1].outcome
         /\ call.second[1].outcome = "ok" => call.second = call.alone
    /\ call.pc = "second" /\ call.a = call.b /\ call.first[1].outcome = "ok" =>
         call.second = call.first

\* a RO levy rebalanced in place to a split with a tax share and then to an
\* equal split without one, and the second call alone on an equal levy
C28_Witness ==
    /\ call.pc = "second" /\ call.alone_pc = "done"
    /\ call.inplace
    /\ call.levy.short_name = "ro"
    /\ call.first[1].outcome = "ok" /\ call.second[1].outcome = "ok"
    /\ call.first[1].levy.tax_weight = Q(1, 4)
    /\ call.second[1].levy.tax_weight = Z(0)
    /\ call.second[1].levy.gas_fixed_rate # call.first[1].levy.gas_fixed_rate
    /\ call.second[1].levy = call.alone[1].levy
    /\ call.a.supply_gas # call.b.supply_gas

----------------------------------------------------------------------------
(* Properties of the cost components (SpecBatch) *)

AllSummaries ==
    ScenariosDone /\ {"fixed", "variable", "total"} \subseteq Range(batch.args.summaries)

\* the value reported in block b for a profile under a variable name
ReportedValue(b, profile, variable) ==
    CHOOSE value \in Reported(b, profile, variable) : TRUE

\* the sum of the four components reported in block b for a profile
ComponentsReported(b, profile) ==
    RAdd(RAdd(ReportedValue(b, profile, "electricity fixed levy costs"),
              ReportedValue(b, profile, "electricity variable levy costs")),
         RAdd(ReportedValue(b, profile, "gas fixed levy costs"),
              ReportedValue(b, profile, "gas variable levy costs")))

\* C29 as stated: for every archetype and every scenario the 'total levy
\* costs' is the sum of the four fixed and variable components reported for
\* the same archetype and scenario, archetypes with a consumption of 0
\* included
C29_TotalIsSumOfComponents ==
    AllSummaries =>
      \A b \in DOMAIN batch.result.out :
        \A i \in DOMAIN batch.args.consumption_values_df :
          ReportedValue(b, batch.args.consumption_values_df[i].profile,
                        "total levy costs")
            = ComponentsReported(b, batch.args.consumption_values_df[i].profile)

\* C29, the program: the total is the sum of the four components for an
\* archetype that consumes electricity; for an archetype whose electricity
\* consumption is 0 the electricity fixed component is reported as 0 while
\* the total still carries the electricity fixed rates of the levies, so the
\* total exceeds the sum of the components by the sum of those rates
C29_TotalOverComponents ==
    AllSummaries =>
      \A b \in DOMAIN batch.result.out :
        \A i \in DOMAIN batch.args.consumption_values_df :
          ReportedValue(b, batch.args.consumption_values_df[i].profile,
                        "total levy costs")
            = RAdd(ComponentsReported(b, batch.args.consumption_values_df[i].profile),
                   IF batch.args.consumption_values_df[i].electricity = Z(0)
                   THEN sum([j \in DOMAIN batch.levies |->
                               BlockLevies(b)[j].electricity_fixed_rate])
                   ELSE Z(0))

\* a household with gas and no electricity consumption under a scenario that
\* gives the levies an electricity fixed rate: the total is not the sum
C29_Witness ==
    /\ AllSummaries
    /\ Len(batch.result.out) >= 2
    /\ \E i \in DOMAIN batch.args.consumption_values_df :
         /\ batch.args.consumption_values_df[i].electricity = Z(0)
         /\ batch.args.consumption_values_df[i].gas # Z(0)
         /\ ReportedValue(2, batch.args.consumption_values_df[i].profile,
                          "electricity fixed levy costs") = Z(0)
         /\ RGt(ReportedValue(2, batch.args.consumption_values_df[i].profile,
                              "total levy costs"),
                ComponentsReported(2, batch.args.consumption_values_df[i].profile))

====
